---- MODULE Spec2Model ----
(***************************************************************************)
(* State-machine model of the heap-allocation sanitizer of libcplusplus:   *)
(* src/src/sanitize/{mod,tracker,quarantine,redzone,diagnostic}.rs and the *)
(* platform allocator they wrap (src/src/platform/mod.rs).                 *)
(*                                                                         *)
(* Addresses, byte values and table slots are integers.  The two table     *)
(* capacities, the redzone width and the hash window are scaled down so    *)
(* that every probe chain, ring wrap and saturation case is reached.       *)
(***************************************************************************)
EXTENDS Integers, Sequences, FiniteSets, TLC

\* ------------------------------------------------------------------ bounds
\* Number of raw blocks the platform allocator can hand out.
NumBlocks == 3
\* Largest user size requested (layout.size() ranges over 0..MaxSize).
MaxSize == 2
\* Number of blocks handed out in a run of Spec.
MaxAllocs == 3
\* Number of blocks handed out plus user stores in a run of SpecWrite, SpecMix,
\* SpecThreads or SpecRace.
MaxSteps == 4
\* Number of threads.
NumThreads == 3
\* Number of threads running the pipeline concurrently.
NumWorkers == 2
\* Width of the epoch counter in bits (AtomicU64 in the source).
EpochBits == 3
\* Calls of bump in one run: one more than the counter can count.
MaxBumps == 9
\* Width of usize in a run of SpecFormat (64 in the source).
ValueBits == 10
\* tracker.rs CAPACITY (16384), scaled.
CAPACITY == 2
\* quarantine.rs CAPACITY (256), scaled.
QCAPACITY == 2
\* redzone.rs REDZONE_SIZE (16), scaled.
REDZONE_SIZE == 2

\* --------------------------------------------------------------- constants
\* b'0'
Digit0 == 48
CANARY_BYTE == 171
POISON_BYTE == 254
\* The byte the user program stores (0x11 in the end-to-end scenarios).
UserBytes == {17}
\* Platform memory holds this byte before anything is stored.
FreshBytes == {0}

Kinds == {"Rust", "ScalarNew", "ArrayNew"}

\* redzone.rs: total_size
total_size(user_size) == REDZONE_SIZE + user_size + REDZONE_SIZE

\* ---------------------------------------------------------------- platform
\* The platform allocator owns NumBlocks disjoint raw blocks, each large
\* enough for the largest request; address 0 is the null pointer.
Stride == total_size(MaxSize)
BaseAddr(b) == Stride * (b + 1)
Bases == {BaseAddr(b) : b \in 0 .. NumBlocks - 1}
Addrs == BaseAddr(0) .. BaseAddr(NumBlocks) - 1
NULL == 0
\* An address the platform never returns.
Wild == BaseAddr(NumBlocks) + REDZONE_SIZE
UserAddrs == {b + REDZONE_SIZE : b \in Bases}

None == <<>>
Some(x) == <<x>>

VARIABLES
    mem,          \* platform memory: Addrs -> byte
    heap,         \* bases the platform currently holds allocated
    freed,        \* per base: number of platform free calls (saturating at 2)
    badFree,      \* a platform free was called on a base not allocated
    tracker,      \* TrackerInner: [entries, count]
    quarantine,   \* QuarantineInner: [ring, pos, len]
    outstanding,  \* allocations returned to the user and not yet freed
    saturated,    \* more than CAPACITY allocations were outstanding at once
    pushed,       \* the latest quarantine pushes, oldest first (at most QCAPACITY + 1)
    allocs,       \* blocks handed out (counted in the bounded runs)
    writes,       \* user stores performed (counted in the bounded runs)
    last,         \* the last completed call and what it returned / reported
    locked,       \* per spin lock: SpinLock.locked
    guards,       \* per thread: the locks it holds a SpinLockGuard of
    lk,           \* per thread: where it is inside SpinLock::lock, and of which lock
    fd,           \* the last format_dec call: its value, buffer and returned slice
    ep,           \* an Epoch: its counter, and what its bump and get calls returned
    th            \* per thread: the pipeline call it is inside and where

\* The state of the pipeline run by one thread, and of the spin locks.
pipeVars == <<mem, heap, freed, badFree, tracker, quarantine, outstanding, saturated,
              pushed, allocs, writes, last>>
lockVars == <<locked, guards, lk>>
vars == <<pipeVars, lockVars, fd, ep, th>>

\* ----------------------------------------------------------------- tracker
\* tracker.rs: Entry::EMPTY
TrackerEmpty == [addr |-> 0, size |-> 0, state |-> "Empty", kind |-> "Rust"]

\* tracker.rs: TrackerInner::new
TrackerNew == [entries |-> [i \in 0 .. CAPACITY - 1 |-> TrackerEmpty], count |-> 0]

\* tracker.rs: TrackerInner::hash.  The source multiplies by
\* 0x9E3779B97F4A7C15 in 64 bits and keeps the top 14 bits; the model
\* multiplies by the top 16 bits of that constant (0x9E37) in a 16-bit word
\* and keeps the top bit.
hash(addr) == ((addr * 40503) % 65536) \div 32768

\* tracker.rs: TrackerInner::insert, the probe loop from slot idx with n
\* iterations left.
RECURSIVE InsertProbe(_, _, _, _, _, _)
InsertProbe(t, idx, n, addr, size, kind) ==
    IF n = 0 THEN t
    ELSE IF t.entries[idx].state \in {"Empty", "Tombstone"}
         THEN [entries |-> [t.entries EXCEPT ![idx] =
                              [addr |-> addr, size |-> size,
                               state |-> "Occupied", kind |-> kind]],
               count |-> t.count + 1]
         ELSE InsertProbe(t, (idx + 1) % CAPACITY, n - 1, addr, size, kind)

\* Mutant: a full table overwrites the slot the address hashes to.
TrackerInsertOverwrite(t, addr, size, kind) ==
    LET r == InsertProbe(t, hash(addr) % CAPACITY, CAPACITY, addr, size, kind)
    IN IF r # t THEN r
       ELSE [t EXCEPT !.entries[hash(addr) % CAPACITY] =
                        [addr |-> addr, size |-> size, state |-> "Occupied",
                         kind |-> kind]]

TrackerInsert(t, addr, size, kind) ==
    InsertProbe(t, hash(addr) % CAPACITY, CAPACITY, addr, size, kind)

\* tracker.rs: TrackerInner::remove.  Result: [res, t] with res None or
\* Some(<<size, kind>>).
RECURSIVE RemoveProbe(_, _, _, _)
RemoveProbe(t, idx, n, addr) ==
    IF n = 0 THEN [res |-> None, t |-> t]
    ELSE IF t.entries[idx].state = "Occupied" /\ t.entries[idx].addr = addr
         THEN [res |-> Some(<<t.entries[idx].size, t.entries[idx].kind>>),
               t |-> [entries |-> [t.entries EXCEPT ![idx].state = "Tombstone"],
                      count |-> t.count - 1]]
         ELSE IF t.entries[idx].state = "Empty"
              THEN [res |-> None, t |-> t]
              ELSE RemoveProbe(t, (idx + 1) % CAPACITY, n - 1, addr)

\* Mutant: remove forgets to decrement count.
TrackerRemoveKeepsCount(t, addr) ==
    LET r == RemoveProbe(t, hash(addr) % CAPACITY, CAPACITY, addr)
    IN [res |-> r.res, t |-> [r.t EXCEPT !.count = t.count]]

\* Mutant: remove empties the slot instead of leaving a tombstone.
TrackerRemoveClears(t, addr) ==
    LET r == RemoveProbe(t, hash(addr) % CAPACITY, CAPACITY, addr)
    IN [res |-> r.res,
        t |-> [r.t EXCEPT !.entries =
                 [i \in 0 .. CAPACITY - 1 |->
                    IF r.t.entries[i].state = "Tombstone" /\ t.entries[i].state = "Occupied"
                    THEN TrackerEmpty ELSE r.t.entries[i]]]]

TrackerRemove(t, addr) == RemoveProbe(t, hash(addr) % CAPACITY, CAPACITY, addr)

\* tracker.rs: TrackerInner::lookup
RECURSIVE LookupProbe(_, _, _, _)
LookupProbe(t, idx, n, addr) ==
    IF n = 0 THEN None
    ELSE IF t.entries[idx].state = "Occupied" /\ t.entries[idx].addr = addr
         THEN Some(<<t.entries[idx].size, t.entries[idx].kind>>)
         ELSE IF t.entries[idx].state = "Empty"
              THEN None
              ELSE LookupProbe(t, (idx + 1) % CAPACITY, n - 1, addr)

TrackerLookup(t, addr) == LookupProbe(t, hash(addr) % CAPACITY, CAPACITY, addr)

\* tracker.rs: TrackerInner::for_each_live with f = diagnostic::leak_detected:
\* the leak lines, in slot order from slot idx.
RECURSIVE ForEachLive(_, _)
ForEachLive(t, idx) ==
    IF idx = CAPACITY THEN <<>>
    ELSE (IF t.entries[idx].state = "Occupied"
          THEN <<[line |-> "leak", addr |-> t.entries[idx].addr,
                  size |-> t.entries[idx].size, kind |-> t.entries[idx].kind]>>
          ELSE <<>>)
         \o ForEachLive(t, idx + 1)

\* Mutant: the walk starts at the second slot.
LeakReportSkipsFirst(t) ==
    IF t.count = 0 THEN <<>>
    ELSE <<[line |-> "banner"]>> \o ForEachLive(t, 1)
         \o <<[line |-> "total", n |-> t.count]>>

\* tracker.rs: report_leaks, what it writes to stderr.
LeakReport(t) ==
    IF t.count = 0 THEN <<>>
    ELSE <<[line |-> "banner"]>> \o ForEachLive(t, 0)
         \o <<[line |-> "total", n |-> t.count]>>

\* -------------------------------------------------------------- quarantine
\* quarantine.rs: Entry::EMPTY
QEmpty == [user_addr |-> 0, base_addr |-> 0, user_size |-> 0]

\* quarantine.rs: QuarantineInner::new
QuarantineNew == [ring |-> [i \in 0 .. QCAPACITY - 1 |-> QEmpty], pos |-> 0, len |-> 0]

\* Mutant: the ring counts itself full one entry early.
QuarantinePushEarlyFull(q, user_addr, base_addr, user_size) ==
    LET full == q.len >= QCAPACITY - 1
        evicted == IF full THEN Some(q.ring[q.pos].base_addr) ELSE None
        len1 == IF full THEN q.len ELSE q.len + 1
    IN [evicted |-> evicted,
        q |-> [ring |-> [q.ring EXCEPT ![q.pos] =
                           [user_addr |-> user_addr, base_addr |-> base_addr,
                            user_size |-> user_size]],
               pos |-> (q.pos + 1) % QCAPACITY,
               len |-> len1]]

\* Mutant: a full ring hands back the user address of the evicted entry.
QuarantinePushUserAddr(q, user_addr, base_addr, user_size) ==
    LET full == q.len = QCAPACITY
        evicted == IF full THEN Some(q.ring[q.pos].user_addr) ELSE None
        len1 == IF full THEN q.len ELSE q.len + 1
    IN [evicted |-> evicted,
        q |-> [ring |-> [q.ring EXCEPT ![q.pos] =
                           [user_addr |-> user_addr, base_addr |-> base_addr,
                            user_size |-> user_size]],
               pos |-> (q.pos + 1) % QCAPACITY,
               len |-> len1]]

\* quarantine.rs: QuarantineInner::push.  Result: [evicted, q].
QuarantinePush(q, user_addr, base_addr, user_size) ==
    LET full == q.len = QCAPACITY
        evicted == IF full THEN Some(q.ring[q.pos].base_addr) ELSE None
        len1 == IF full THEN q.len ELSE q.len + 1
    IN [evicted |-> evicted,
        q |-> [ring |-> [q.ring EXCEPT ![q.pos] =
                           [user_addr |-> user_addr, base_addr |-> base_addr,
                            user_size |-> user_size]],
               pos |-> (q.pos + 1) % QCAPACITY,
               len |-> len1]]

\* Mutant: the scan stops one slot short.
QuarantineContainsShort(q, user_addr) ==
    \E i \in 0 .. q.len - 2 : q.ring[i].user_addr = user_addr

\* quarantine.rs: QuarantineInner::contains
QuarantineContains(q, user_addr) ==
    \E i \in 0 .. q.len - 1 : q.ring[i].user_addr = user_addr

\* ----------------------------------------------------------------- redzone
\* Mutant: the suffix redzone is written right after the prefix, whatever
\* the user size.
fill_canaries_no_size(m, base, user_size) ==
    [a \in Addrs |->
        IF a >= base /\ a < base + REDZONE_SIZE + REDZONE_SIZE
        THEN CANARY_BYTE ELSE m[a]]

\* redzone.rs: fill_canaries
fill_canaries(m, base, user_size) ==
    [a \in Addrs |->
        IF \/ (a >= base /\ a < base + REDZONE_SIZE)
           \/ (a >= base + REDZONE_SIZE + user_size
               /\ a < base + REDZONE_SIZE + user_size + REDZONE_SIZE)
        THEN CANARY_BYTE ELSE m[a]]

\* Mutant: only the first byte of each redzone is compared.
check_canaries_first(m, base, user_size) ==
    [prefix_corrupt |-> m[base] # CANARY_BYTE,
     suffix_corrupt |-> m[base + REDZONE_SIZE + user_size] # CANARY_BYTE]

\* redzone.rs: check_canaries, the two flags handed to overflow_detected.
check_canaries(m, base, user_size) ==
    [prefix_corrupt |-> \E i \in 0 .. REDZONE_SIZE - 1 : m[base + i] # CANARY_BYTE,
     suffix_corrupt |-> \E i \in 0 .. REDZONE_SIZE - 1 :
                            m[base + REDZONE_SIZE + user_size + i] # CANARY_BYTE]

\* Mutant: the last user byte is left as the program wrote it.
poison_short(m, user_ptr, user_size) ==
    [a \in Addrs |-> IF a >= user_ptr /\ a < user_ptr + user_size - 1
                     THEN POISON_BYTE ELSE m[a]]

\* redzone.rs: poison
poison(m, user_ptr, user_size) ==
    [a \in Addrs |-> IF a >= user_ptr /\ a < user_ptr + user_size
                     THEN POISON_BYTE ELSE m[a]]

\* Mutant: the two operator new kinds pass for one another.
kind_compatible_new(tracked, freed_as) ==
    \/ tracked = freed_as
    \/ tracked # "Rust" /\ freed_as # "Rust"

\* mod.rs: kind_compatible
kind_compatible(tracked, freed_as) ==
    \/ tracked = "Rust" /\ freed_as = "Rust"
    \/ tracked = "ScalarNew" /\ freed_as = "ScalarNew"
    \/ tracked = "ArrayNew" /\ freed_as = "ArrayNew"

\* -------------------------------------------------------------- diagnostic
\* usize values, ValueBits wide.
Values == 0 .. 2 ^ ValueBits - 1

\* The number of decimal digits of n > 0.
RECURSIVE NumDigits(_)
NumDigits(n) == IF n < 10 THEN 1 ELSE 1 + NumDigits(n \div 10)

\* diagnostic.rs: the buffer of format_dec, [u8; 20]: as long as the largest
\* usize has digits.
DecBufLen == NumDigits(2 ^ ValueBits - 1)

\* diagnostic.rs: format_dec, the loop `while v > 0` with i the write index.
RECURSIVE FormatLoop(_, _, _)
FormatLoop(v, i, buf) ==
    IF v > 0
    THEN FormatLoop(v \div 10, i - 1, [buf EXCEPT ![i - 1] = Digit0 + (v % 10)])
    ELSE [buf |-> buf, start |-> i]

\* Mutant: zero goes through the loop like any other value.
format_dec_loop_only(value, buf) == FormatLoop(value, DecBufLen, buf)

\* diagnostic.rs: format_dec.  Result: the buffer as written and the index
\* the returned slice &buf[start..] starts at.
format_dec(value, buf) ==
    IF value = 0
    THEN [buf |-> [buf EXCEPT ![DecBufLen - 1] = Digit0], start |-> DecBufLen - 1]
    ELSE FormatLoop(value, DecBufLen, buf)

\* No format_dec call made yet.
NoFormat == [value |-> 0, buf |-> [i \in 0 .. DecBufLen - 1 |-> 0], start |-> DecBufLen,
            slice |-> <<>>]

\* A caller formats value into a buffer holding `fill` in every byte (one
\* call in a run: the function keeps no state between calls).
FormatDec(value, fill) ==
    /\ fd = NoFormat
    /\ LET r == format_dec(value, [i \in 0 .. DecBufLen - 1 |-> fill])
       IN fd' = [value |-> value, buf |-> r.buf, start |-> r.start,
                 slice |-> [k \in 1 .. DecBufLen - r.start |-> r.buf[r.start + k - 1]]]

\* ---------------------------------------------------------------- spinlock
\* The two locks of the sanitizer (static TRACKER, static QUARANTINE) and the
\* threads that take them.
Locks == {"TRACKER", "QUARANTINE"}
Threads == 1 .. NumThreads

\* A thread that is not inside SpinLock::lock.
LockOut == [pc |-> "out", lock |-> "TRACKER"]

\* spinlock.rs: SpinLock::lock is entered on lock l.
LockEnter(t, l) ==
    /\ lk[t].pc = "out"
    /\ lk' = [lk EXCEPT ![t] = [pc |-> "cas", lock |-> l]]
    /\ UNCHANGED <<locked, guards>>

\* Mutant: the exchange succeeds whatever the flag holds.
LockCasBlind(t) ==
    /\ lk[t].pc = "cas"
    /\ LET l == lk[t].lock
       IN \/ /\ locked' = [locked EXCEPT ![l] = TRUE]
             /\ guards' = [guards EXCEPT ![t] = @ \cup {l}]
             /\ lk' = [lk EXCEPT ![t] = LockOut]
          \/ /\ lk' = [lk EXCEPT ![t].pc = "spin"]
             /\ UNCHANGED <<locked, guards>>

\* spinlock.rs: lock, compare_exchange_weak(false, true): it succeeds only
\* on an unlocked flag, sets it and the guard is returned; it fails on a
\* locked flag, and may fail spuriously on an unlocked one.
LockCas(t) ==
    /\ lk[t].pc = "cas"
    /\ LET l == lk[t].lock
       IN \/ /\ ~locked[l]
             /\ locked' = [locked EXCEPT ![l] = TRUE]
             /\ guards' = [guards EXCEPT ![t] = @ \cup {l}]
             /\ lk' = [lk EXCEPT ![t] = LockOut]
          \/ /\ lk' = [lk EXCEPT ![t].pc = "spin"]
             /\ UNCHANGED <<locked, guards>>

\* spinlock.rs: lock, while self.locked.load(Relaxed) { spin_loop() }
LockSpin(t) ==
    /\ lk[t].pc = "spin"
    /\ lk' = [lk EXCEPT ![t].pc = IF locked[lk[t].lock] THEN "spin" ELSE "cas"]
    /\ UNCHANGED <<locked, guards>>

\* spinlock.rs: Drop for SpinLockGuard, locked.store(false, Release).
GuardDrop(t, l) ==
    /\ lk[t].pc = "out"
    /\ l \in guards[t]
    /\ locked' = [locked EXCEPT ![l] = FALSE]
    /\ guards' = [guards EXCEPT ![t] = @ \ {l}]
    /\ UNCHANGED lk

\* spinlock.rs: SpinLock::lock as a whole, as the pipeline's calls use it:
\* it returns, with the guard, once its exchange finds the flag clear.
Acquire(t, l) ==
    /\ ~locked[l]
    /\ locked' = [locked EXCEPT ![l] = TRUE]
    /\ guards' = [guards EXCEPT ![t] = @ \cup {l}]
    /\ UNCHANGED lk

\* The guard of l is dropped at the end of the statement that took it.
Release(t, l) ==
    /\ locked' = [locked EXCEPT ![l] = FALSE]
    /\ guards' = [guards EXCEPT ![t] = @ \ {l}]
    /\ UNCHANGED lk

\* The threads that run the pipeline concurrently.
Workers == 1 .. NumWorkers

\* A thread outside every pipeline call.
\* (live: the pointer passed to free was Occupied in the tracker at the call.)
\* (old, old_size: the block and layout.size() a realloc was called with.)
ThIdle == [pc |-> "idle", op |-> "none", ptr |-> 0, size |-> 0, base |-> 0,
           tracked |-> <<>>, found |-> FALSE, evicted |-> <<>>, live |-> FALSE,
           old |-> 0, old_size |-> 0]

\* ------------------------------------------------------------------- epoch
\* epoch.rs: Epoch::new.  value is the AtomicU64; the other fields record the
\* calls: n the number of bump calls so far, rets what they returned in the
\* order they took effect, got what each thread's last get returned (None
\* before its first), top the largest value any get has returned, and op,
\* ret the last call and its result.
EpochNew == [value |-> 0, n |-> 0, rets |-> <<>>, got |-> [t \in Threads |-> None],
             top |-> 0, op |-> "new", ret |-> 0]

\* Mutant: the addition returns the new value.
fetch_add_new(v, d) ==
    [ret |-> (v + d) % 2 ^ EpochBits, value |-> (v + d) % 2 ^ EpochBits]

\* AtomicU64::fetch_add, one indivisible read-modify-write that wraps around
\* on overflow and returns the previous value.
fetch_add(v, d) == [ret |-> v, value |-> (v + d) % 2 ^ EpochBits]

\* epoch.rs: Epoch::bump, called by thread t
EpochBump(t) ==
    /\ ep.n < MaxBumps
    /\ LET r == fetch_add(ep.value, 1)
       IN ep' = [ep EXCEPT !.value = r.value, !.n = @ + 1, !.rets = Append(@, r.ret),
                           !.op = "bump", !.ret = r.ret]

\* epoch.rs: Epoch::get, called by thread t (an atomic load)
EpochGet(t) ==
    ep' = [ep EXCEPT !.got[t] = Some(ep.value),
                     !.top = IF ep.value > @ THEN ep.value ELSE @,
                     !.op = "get", !.ret = ep.value]

\* ---------------------------------------------------------------- pipeline
\* The sanitizer and platform state a call works on.
St == [mem |-> mem, heap |-> heap, freed |-> freed, badFree |-> badFree,
       tracker |-> tracker, quarantine |-> quarantine, outstanding |-> outstanding,
       saturated |-> saturated, pushed |-> pushed]

\* The latest QCAPACITY + 1 pushes after one more.
Remember(h, e) ==
    LET h1 == Append(h, e)
    IN IF Len(h1) > QCAPACITY + 1 THEN Tail(h1) ELSE h1

\* platform/mod.rs: malloc returning base (a block it does not hold allocated).
platform_malloc(s, base) == [s EXCEPT !.heap = @ \cup {base}]

\* platform/mod.rs: free(base).  The call is counted; a call on a base the
\* platform does not hold allocated is recorded in badFree.
platform_free(s, base) ==
    [s EXCEPT !.heap = @ \ {base},
              !.freed = [b \in Bases |-> IF b = base /\ @[b] < 2 THEN @[b] + 1 ELSE @[b]],
              !.badFree = @ \/ base \notin s.heap]

\* mod.rs: sanitized_alloc after malloc(total) returned base, recording `kind`
\* (sanitized_alloc itself records AllocKind::Rust).  Result: [s, ret, total].
alloc_inner(s, base, user_size, kind) ==
    LET total == total_size(user_size)
    IN IF base = NULL THEN [s |-> s, ret |-> NULL, total |-> total]
       ELSE LET s1 == platform_malloc(s, base)
                user_ptr == base + REDZONE_SIZE
                out1 == s.outstanding \cup {[addr |-> user_ptr, size |-> user_size,
                                             kind |-> kind]}
            IN [s |-> [s1 EXCEPT
                         !.mem = fill_canaries(@, base, user_size),
                         !.tracker = TrackerInsert(@, user_ptr, user_size, kind),
                         !.outstanding = out1,
                         !.saturated = @ \/ Cardinality(out1) > CAPACITY],
                ret |-> user_ptr, total |-> total]

\* What dealloc_inner reports when it returns without a fatal report.
NoReport == [report |-> "none", tracked |-> None, prefix |-> FALSE,
             suffix |-> FALSE, evicted |-> None]

\* Mutant: the block just quarantined is handed to the platform free at once.
dealloc_accept_eager(s, ptr, base, tracked_size, res) ==
    LET m1 == poison(s.mem, ptr, tracked_size)
        p == QuarantinePush(s.quarantine, ptr, base, tracked_size)
        s1 == [s EXCEPT !.mem = m1, !.quarantine = p.q,
                        !.pushed = Remember(@, [user_addr |-> ptr, base_addr |-> base]),
                        !.outstanding = {o \in @ : o.addr # ptr}]
        s2 == platform_free(s1, base)
    IN [s |-> s2, r |-> [NoReport EXCEPT !.tracked = res, !.evicted = p.evicted]]

\* mod.rs: dealloc_inner, the tail of the hit branch once kind and canaries
\* have passed: poison, quarantine push, platform free of the evicted base.
dealloc_accept(s, ptr, base, tracked_size, res) ==
    LET m1 == poison(s.mem, ptr, tracked_size)
        p == QuarantinePush(s.quarantine, ptr, base, tracked_size)
        s1 == [s EXCEPT !.mem = m1, !.quarantine = p.q,
                        !.pushed = Remember(@, [user_addr |-> ptr, base_addr |-> base]),
                        !.outstanding = {o \in @ : o.addr # ptr}]
        s2 == IF p.evicted # None THEN platform_free(s1, p.evicted[1]) ELSE s1
    IN [s |-> s2, r |-> [NoReport EXCEPT !.tracked = res, !.evicted = p.evicted]]

\* mod.rs: dealloc_inner.  Result: [s, r]; a report other than "none" is a
\* fatal reporter of diagnostic.rs, which aborts the process.
dealloc_inner(s, ptr, expected_kind) ==
    IF ptr = NULL THEN [s |-> s, r |-> NoReport]
    ELSE LET rm == TrackerRemove(s.tracker, ptr)
             s0 == [s EXCEPT !.tracker = rm.t]
         IN IF rm.res # None
            THEN LET tracked_size == rm.res[1][1]
                     tracked_kind == rm.res[1][2]
                     base == ptr - REDZONE_SIZE
                     c == check_canaries(s0.mem, base, tracked_size)
                 IN IF ~kind_compatible(tracked_kind, expected_kind)
                    THEN [s |-> s0,
                          r |-> [NoReport EXCEPT !.report = "mismatched_dealloc",
                                                 !.tracked = rm.res]]
                    ELSE IF c.prefix_corrupt \/ c.suffix_corrupt
                    THEN [s |-> s0,
                          r |-> [NoReport EXCEPT !.report = "overflow_detected",
                                                 !.tracked = rm.res,
                                                 !.prefix = c.prefix_corrupt,
                                                 !.suffix = c.suffix_corrupt]]
                    ELSE dealloc_accept(s0, ptr, base, tracked_size, rm.res)
            ELSE IF QuarantineContains(s0.quarantine, ptr)
                 THEN [s |-> s0, r |-> [NoReport EXCEPT !.report = "double_free"]]
                 ELSE [s |-> s0, r |-> [NoReport EXCEPT !.report = "invalid_free"]]

\* Mutant: the copy stops one byte short.
copy_short(m, src, dst, n) ==
    [a \in Addrs |-> IF a >= dst /\ a < dst + n - 1 THEN m[src + (a - dst)] ELSE m[a]]

\* mod.rs: sanitized_realloc, core::ptr::copy_nonoverlapping(ptr, new_ptr, n)
copy_nonoverlapping(m, src, dst, n) ==
    [a \in Addrs |-> IF a >= dst /\ a < dst + n THEN m[src + (a - dst)] ELSE m[a]]

\* Mutant: when the new allocation fails the old block is released anyway.
sanitized_realloc_frees_old(s, base, ptr, old_size, new_size) ==
    LET a == alloc_inner(s, base, new_size, "Rust")
    IN IF a.ret = NULL
       THEN LET d == dealloc_inner(s, ptr, "Rust")
            IN [s |-> d.s, ret |-> NULL, r |-> d.r]
       ELSE LET copy_size == IF old_size < new_size THEN old_size ELSE new_size
                s1 == [a.s EXCEPT !.mem = copy_nonoverlapping(@, ptr, a.ret, copy_size)]
                d == dealloc_inner(s1, ptr, "Rust")
            IN [s |-> d.s, ret |-> a.ret, r |-> d.r]

\* mod.rs: sanitized_realloc after malloc returned base.  Result: [s, ret, r].
sanitized_realloc(s, base, ptr, old_size, new_size) ==
    LET a == alloc_inner(s, base, new_size, "Rust")
    IN IF a.ret = NULL THEN [s |-> s, ret |-> NULL, r |-> NoReport]
       ELSE LET copy_size == IF old_size < new_size THEN old_size ELSE new_size
                s1 == [a.s EXCEPT !.mem = copy_nonoverlapping(@, ptr, a.ret, copy_size)]
                d == dealloc_inner(s1, ptr, "Rust")
            IN [s |-> d.s, ret |-> a.ret, r |-> d.r]

\* ----------------------------------------------------------------- actions
Idle == [op |-> "none", ptr |-> NULL, size |-> 0, kind |-> "Rust", ret |-> NULL,
         total |-> 0, report |-> "none", tracked |-> None, prefix |-> FALSE,
         suffix |-> FALSE, evicted |-> None, found |-> FALSE, out |-> <<>>]

Commit(s) ==
    /\ mem' = s.mem
    /\ heap' = s.heap
    /\ freed' = s.freed
    /\ badFree' = s.badFree
    /\ tracker' = s.tracker
    /\ quarantine' = s.quarantine
    /\ outstanding' = s.outstanding
    /\ saturated' = s.saturated
    /\ pushed' = s.pushed

\* A fatal reporter has aborted the process.
Aborted == last.report # "none"

\* What malloc may return: null, or any block it does not hold allocated.
MallocResults == {NULL} \cup (Bases \ heap)

WithReport(l, r) ==
    [l EXCEPT !.report = r.report, !.tracked = r.tracked, !.prefix = r.prefix,
              !.suffix = r.suffix, !.evicted = r.evicted]

Init ==
    /\ mem \in [Addrs -> FreshBytes]
    /\ heap = {}
    /\ freed = [b \in Bases |-> 0]
    /\ badFree = FALSE
    /\ tracker = TrackerNew
    /\ quarantine = QuarantineNew
    /\ outstanding = {}
    /\ saturated = FALSE
    /\ pushed = <<>>
    /\ allocs = 0
    /\ writes = 0
    /\ last = Idle
    /\ locked = [l \in Locks |-> FALSE]
    /\ guards = [t \in Threads |-> {}]
    /\ lk = [t \in Threads |-> LockOut]
    /\ fd = NoFormat
    /\ ep = EpochNew
    /\ th = [t \in Threads |-> ThIdle]

\* mod.rs: sanitized_alloc(layout) with layout.size() = size.
SanitizedAlloc(size) ==
    /\ ~Aborted
    /\ \E base \in MallocResults :
          LET a == alloc_inner(St, base, size, "Rust")
          IN /\ Commit(a.s)
             /\ last' = [Idle EXCEPT !.op = "alloc", !.size = size, !.ret = a.ret,
                                     !.total = a.total]

\* The operator new / new[] export the tracker's kinds are reserved for:
\* the allocation path of sanitized_alloc recording ScalarNew or ArrayNew.
OperatorNew(size, kind) ==
    /\ ~Aborted
    /\ \E base \in MallocResults :
          LET a == alloc_inner(St, base, size, kind)
          IN /\ Commit(a.s)
             /\ last' = [Idle EXCEPT !.op = "alloc", !.size = size, !.kind = kind,
                                     !.ret = a.ret, !.total = a.total]

\* Mutant: the user region is poisoned as soon as the tracker knows the
\* block, before the kind and canary checks.
DeallocPoisonsFirst(ptr, expected_kind) ==
    /\ ~Aborted
    /\ LET d == dealloc_inner(St, ptr, expected_kind)
           s1 == IF d.r.tracked # None
                 THEN [d.s EXCEPT !.mem = poison(@, ptr, d.r.tracked[1][1])]
                 ELSE d.s
       IN /\ Commit(s1)
          /\ last' = WithReport([Idle EXCEPT !.op = "dealloc", !.ptr = ptr,
                                             !.kind = expected_kind], d.r)

\* mod.rs: sanitized_dealloc (expected_kind = Rust) and dealloc_inner as
\* called by an operator delete / delete[] export.
Dealloc(ptr, expected_kind) ==
    /\ ~Aborted
    /\ LET d == dealloc_inner(St, ptr, expected_kind)
       IN /\ Commit(d.s)
          /\ last' = WithReport([Idle EXCEPT !.op = "dealloc", !.ptr = ptr,
                                             !.kind = expected_kind], d.r)

\* mod.rs: sanitized_realloc(ptr, layout, new_size); by its safety contract
\* ptr came from sanitized_alloc with this layout and new_size > 0.
SanitizedRealloc(o, new_size) ==
    /\ ~Aborted
    /\ o \in outstanding
    /\ o.kind = "Rust"
    /\ \E base \in MallocResults :
          LET x == sanitized_realloc(St, base, o.addr, o.size, new_size)
          IN /\ Commit(x.s)
             /\ last' = WithReport([Idle EXCEPT !.op = "realloc", !.ptr = o.addr,
                                                !.size = new_size, !.ret = x.ret], x.r)

\* tracker.rs: report_leaks
ReportLeaks ==
    /\ ~Aborted
    /\ last' = [Idle EXCEPT !.op = "report_leaks", !.out = LeakReport(tracker)]
    /\ UNCHANGED <<mem, heap, freed, badFree, tracker, quarantine, outstanding,
                   saturated, pushed>>

\* The user program stores a byte into one of its blocks, in bounds or into
\* one of the block's redzones (an overflow or underflow).
UserWrite(o, off, v) ==
    /\ ~Aborted
    /\ o \in outstanding
    /\ off \in 0 .. total_size(o.size) - 1
    /\ mem' = [mem EXCEPT ![o.addr - REDZONE_SIZE + off] = v]
    /\ last' = [Idle EXCEPT !.op = "write"]
    /\ UNCHANGED <<heap, freed, badFree, tracker, quarantine, outstanding,
                   saturated, pushed>>

\* quarantine.rs: push, called directly.
QPush(user_addr, base_addr, user_size) ==
    /\ LET p == QuarantinePush(quarantine, user_addr, base_addr, user_size)
       IN /\ quarantine' = p.q
          /\ pushed' = Remember(pushed, [user_addr |-> user_addr, base_addr |-> base_addr])
          /\ last' = [Idle EXCEPT !.op = "push", !.ptr = user_addr, !.evicted = p.evicted]
    /\ UNCHANGED <<mem, heap, freed, badFree, tracker, outstanding, saturated>>

\* quarantine.rs: contains, called directly.
QContains(user_addr) ==
    /\ last' = [Idle EXCEPT !.op = "contains", !.ptr = user_addr,
                            !.found = QuarantineContains(quarantine, user_addr)]
    /\ UNCHANGED <<mem, heap, freed, badFree, tracker, quarantine, outstanding,
                   saturated, pushed>>

\* tracker.rs: insert, called directly with an address that is not live,
\* while fewer than CAPACITY addresses are live.
TrkInsert(addr, size, kind) ==
    /\ \A o \in outstanding : o.addr # addr
    /\ Cardinality(outstanding) < CAPACITY
    /\ tracker' = TrackerInsert(tracker, addr, size, kind)
    /\ outstanding' = outstanding \cup {[addr |-> addr, size |-> size, kind |-> kind]}
    /\ last' = [Idle EXCEPT !.op = "insert", !.ptr = addr, !.size = size, !.kind = kind]
    /\ UNCHANGED <<mem, heap, freed, badFree, quarantine, saturated, pushed>>

\* tracker.rs: remove, called directly with any address.
TrkRemove(addr) ==
    /\ LET r == TrackerRemove(tracker, addr)
       IN /\ tracker' = r.t
          /\ last' = [Idle EXCEPT !.op = "remove", !.ptr = addr, !.tracked = r.res]
    /\ outstanding' = {o \in outstanding : o.addr # addr}
    /\ UNCHANGED <<mem, heap, freed, badFree, quarantine, saturated, pushed>>

\* tracker.rs: lookup, called directly with any address (it takes &self).
TrkLookup(addr) ==
    /\ last' = [Idle EXCEPT !.op = "lookup", !.ptr = addr,
                            !.tracked = TrackerLookup(tracker, addr)]
    /\ UNCHANGED <<mem, heap, freed, badFree, tracker, quarantine, outstanding,
                   saturated, pushed>>

Sizes == 0 .. MaxSize
FreePtrs == {NULL, Wild} \cup UserAddrs

\* The blocks handed out so far (a failed request hands out none).
Counted == allocs' = (IF last'.ret # NULL THEN allocs + 1 ELSE allocs)
\* One more allocation request of a bounded run of Spec.
AllocBudget == allocs < MaxAllocs /\ Counted /\ UNCHANGED <<writes, lockVars, fd, ep, th>>
\* One more allocation request, or one more store, of a bounded run of SpecWrite.
AllocStep == allocs + writes < MaxSteps /\ Counted /\ UNCHANGED <<writes, lockVars, fd, ep, th>>
WriteStep == allocs + writes < MaxSteps /\ writes' = writes + 1 /\ UNCHANGED <<allocs, lockVars, fd, ep, th>>
NoStep == UNCHANGED <<allocs, writes, lockVars, fd, ep, th>>

\* ----------------------------------------------------------------- threads
\* The pipeline calls of a thread t, one step per stretch of code between two
\* lock operations.  A lock is taken in a step of its own (the thread waits
\* there while another holds it); the guarded call and the drop of the
\* guard at the end of its statement are the next step.

\* The other threads are where they were.
Only(t, new) == th' = [th EXCEPT ![t] = new]

\* Mutant: the pointer is handed to the program before it is recorded.
TAllocCallPublishes(t, size) ==
    /\ ~Aborted /\ th[t].pc = "idle"
    /\ \E base \in MallocResults :
          IF base = NULL
          THEN /\ last' = [Idle EXCEPT !.op = "alloc", !.size = size,
                                       !.total = total_size(size)]
               /\ UNCHANGED <<mem, heap, th, outstanding>>
          ELSE /\ heap' = platform_malloc(St, base).heap
               /\ mem' = fill_canaries(mem, base, size)
               /\ outstanding' = outstanding \cup {[addr |-> base + REDZONE_SIZE,
                                                    size |-> size, kind |-> "Rust"]}
               /\ Only(t, [ThIdle EXCEPT !.pc = "a_lock", !.op = "alloc",
                                         !.ptr = base + REDZONE_SIZE, !.size = size,
                                         !.base = base])
               /\ UNCHANGED last
    /\ UNCHANGED <<freed, badFree, tracker, quarantine, saturated, pushed, lockVars>>

\* mod.rs: sanitized_alloc up to tracker::insert: malloc(total), the null
\* return, fill_canaries, user_ptr.
TAllocCall(t, size) ==
    /\ ~Aborted /\ th[t].pc = "idle"
    /\ \E base \in MallocResults :
          IF base = NULL
          THEN /\ last' = [Idle EXCEPT !.op = "alloc", !.size = size,
                                       !.total = total_size(size)]
               /\ UNCHANGED <<mem, heap, th>>
          ELSE /\ heap' = platform_malloc(St, base).heap
               /\ mem' = fill_canaries(mem, base, size)
               /\ Only(t, [ThIdle EXCEPT !.pc = "a_lock", !.op = "alloc",
                                         !.ptr = base + REDZONE_SIZE, !.size = size,
                                         !.base = base])
               /\ UNCHANGED last
    /\ UNCHANGED <<freed, badFree, tracker, quarantine, outstanding, saturated, pushed,
                   lockVars>>

\* tracker.rs: insert, TRACKER.lock()
TAllocLock(t) ==
    /\ ~Aborted /\ th[t].pc = "a_lock"
    /\ Acquire(t, "TRACKER")
    /\ Only(t, [th[t] EXCEPT !.pc = "a_insert"])
    /\ UNCHANGED pipeVars

\* tracker.rs: insert under the guard, the guard dropped; sanitized_alloc
\* returns user_ptr.
TAllocInsert(t) ==
    /\ ~Aborted /\ th[t].pc = "a_insert"
    /\ tracker' = TrackerInsert(tracker, th[t].ptr, th[t].size, "Rust")
    /\ Release(t, "TRACKER")
    /\ outstanding' = outstanding \cup {[addr |-> th[t].ptr, size |-> th[t].size,
                                         kind |-> "Rust"]}
    /\ saturated' = (saturated \/ Cardinality(outstanding') > CAPACITY)
    /\ last' = [Idle EXCEPT !.op = "alloc", !.size = th[t].size, !.ret = th[t].ptr,
                            !.total = total_size(th[t].size)]
    /\ Only(t, ThIdle)
    /\ UNCHANGED <<mem, heap, freed, badFree, quarantine, pushed>>

\* mod.rs: sanitized_dealloc(ptr) -> dealloc_inner(ptr, Rust), the null check.
TFreeCall(t, ptr) ==
    /\ ~Aborted /\ th[t].pc = "idle"
    /\ IF ptr = NULL
       THEN last' = [Idle EXCEPT !.op = "dealloc"] /\ UNCHANGED th
       ELSE /\ Only(t, [ThIdle EXCEPT !.pc = "d_lock", !.op = "dealloc", !.ptr = ptr,
                                      !.live = TrackerLookup(tracker, ptr) # None])
            /\ UNCHANGED last
    /\ UNCHANGED <<mem, heap, freed, badFree, tracker, quarantine, outstanding,
                   saturated, pushed, lockVars>>

\* tracker.rs: remove, TRACKER.lock()
TFreeLock(t) ==
    /\ ~Aborted /\ th[t].pc = "d_lock"
    /\ Acquire(t, "TRACKER")
    /\ Only(t, [th[t] EXCEPT !.pc = "d_remove"])
    /\ UNCHANGED pipeVars

\* Mutant: the tracker guard is kept after remove returns.
TFreeRemoveKeepsGuard(t) ==
    /\ ~Aborted /\ th[t].pc = "d_remove"
    /\ LET rm == TrackerRemove(tracker, th[t].ptr)
       IN /\ tracker' = rm.t
          /\ Only(t, [th[t] EXCEPT !.tracked = rm.res,
                                   !.pc = IF rm.res # None THEN "d_check" ELSE "m_lock"])
    /\ UNCHANGED <<mem, heap, freed, badFree, quarantine, outstanding, saturated,
                   pushed, last, lockVars>>

\* tracker.rs: remove under the guard, the guard dropped; dealloc_inner
\* matches on the result.
TFreeRemove(t) ==
    /\ ~Aborted /\ th[t].pc = "d_remove"
    /\ LET rm == TrackerRemove(tracker, th[t].ptr)
       IN /\ tracker' = rm.t
          /\ Only(t, [th[t] EXCEPT !.tracked = rm.res,
                                   !.pc = IF rm.res # None THEN "d_check" ELSE "m_lock"])
    /\ Release(t, "TRACKER")
    /\ UNCHANGED <<mem, heap, freed, badFree, quarantine, outstanding, saturated,
                   pushed, last>>

\* mod.rs: dealloc_inner, hit branch: kind check, check_canaries (either
\* fatal), poison.
TFreeCheck(t) ==
    /\ ~Aborted /\ th[t].pc = "d_check"
    /\ LET tracked_size == th[t].tracked[1][1]
           tracked_kind == th[t].tracked[1][2]
           c == check_canaries(mem, th[t].ptr - REDZONE_SIZE, tracked_size)
           l == [Idle EXCEPT !.op = "dealloc", !.ptr = th[t].ptr, !.tracked = th[t].tracked]
       IN IF ~kind_compatible(tracked_kind, "Rust")
          THEN /\ last' = [l EXCEPT !.report = "mismatched_dealloc"]
               /\ Only(t, [th[t] EXCEPT !.pc = "aborted"])
               /\ UNCHANGED mem
          ELSE IF c.prefix_corrupt \/ c.suffix_corrupt
          THEN /\ last' = [l EXCEPT !.report = "overflow_detected",
                                    !.prefix = c.prefix_corrupt,
                                    !.suffix = c.suffix_corrupt]
               /\ Only(t, [th[t] EXCEPT !.pc = "aborted"])
               /\ UNCHANGED mem
          ELSE /\ mem' = poison(mem, th[t].ptr, tracked_size)
               /\ Only(t, [th[t] EXCEPT !.pc = "q_lock"])
               /\ UNCHANGED last
    /\ UNCHANGED <<heap, freed, badFree, tracker, quarantine, outstanding, saturated,
                   pushed, lockVars>>

\* quarantine.rs: push, QUARANTINE.lock()
TFreePushLock(t) ==
    /\ ~Aborted /\ th[t].pc = "q_lock"
    /\ Acquire(t, "QUARANTINE")
    /\ Only(t, [th[t] EXCEPT !.pc = "q_push"])
    /\ UNCHANGED pipeVars

\* quarantine.rs: push under the guard, the guard dropped; with nothing
\* evicted dealloc_inner returns.
TFreePush(t) ==
    /\ ~Aborted /\ th[t].pc = "q_push"
    /\ LET base == th[t].ptr - REDZONE_SIZE
           p == QuarantinePush(quarantine, th[t].ptr, base, th[t].tracked[1][1])
       IN /\ quarantine' = p.q
          /\ pushed' = Remember(pushed, [user_addr |-> th[t].ptr, base_addr |-> base])
          /\ outstanding' = {o \in outstanding : o.addr # th[t].ptr}
          /\ IF p.evicted # None
             THEN /\ Only(t, [th[t] EXCEPT !.pc = "d_free", !.evicted = p.evicted])
                  /\ UNCHANGED last
             ELSE /\ Only(t, ThIdle)
                  /\ last' = [Idle EXCEPT !.op = "dealloc", !.ptr = th[t].ptr,
                                          !.tracked = th[t].tracked]
    /\ Release(t, "QUARANTINE")
    /\ UNCHANGED <<mem, heap, freed, badFree, tracker, saturated>>

\* Mutant: the block just quarantined is handed to the platform free, not
\* the evicted one.
TFreeEvictedFreesPushed(t) ==
    /\ ~Aborted /\ th[t].pc = "d_free"
    /\ LET s == platform_free(St, th[t].ptr - REDZONE_SIZE)
       IN heap' = s.heap /\ freed' = s.freed /\ badFree' = s.badFree
    /\ last' = [Idle EXCEPT !.op = "dealloc", !.ptr = th[t].ptr,
                            !.tracked = th[t].tracked, !.evicted = th[t].evicted]
    /\ Only(t, ThIdle)
    /\ UNCHANGED <<mem, tracker, quarantine, outstanding, saturated, pushed, lockVars>>

\* mod.rs: dealloc_inner, platform::free(evicted_base), and the return.
TFreeEvicted(t) ==
    /\ ~Aborted /\ th[t].pc = "d_free"
    /\ LET s == platform_free(St, th[t].evicted[1])
       IN heap' = s.heap /\ freed' = s.freed /\ badFree' = s.badFree
    /\ last' = [Idle EXCEPT !.op = "dealloc", !.ptr = th[t].ptr,
                            !.tracked = th[t].tracked, !.evicted = th[t].evicted]
    /\ Only(t, ThIdle)
    /\ UNCHANGED <<mem, tracker, quarantine, outstanding, saturated, pushed, lockVars>>

\* quarantine.rs: contains, QUARANTINE.lock() (dealloc_inner, miss branch)
TMissLock(t) ==
    /\ ~Aborted /\ th[t].pc = "m_lock"
    /\ Acquire(t, "QUARANTINE")
    /\ Only(t, [th[t] EXCEPT !.pc = "m_contains"])
    /\ UNCHANGED pipeVars

\* quarantine.rs: contains under the guard, the guard dropped.
TMissContains(t) ==
    /\ ~Aborted /\ th[t].pc = "m_contains"
    /\ Only(t, [th[t] EXCEPT !.pc = "m_report",
                             !.found = QuarantineContains(quarantine, th[t].ptr)])
    /\ Release(t, "QUARANTINE")
    /\ UNCHANGED pipeVars

\* mod.rs: dealloc_inner, miss branch: double_free or invalid_free.
TMissReport(t) ==
    /\ ~Aborted /\ th[t].pc = "m_report"
    /\ last' = [Idle EXCEPT !.op = "dealloc", !.ptr = th[t].ptr,
                            !.report = IF th[t].found THEN "double_free"
                                       ELSE "invalid_free"]
    /\ Only(t, [th[t] EXCEPT !.pc = "aborted"])
    /\ UNCHANGED <<mem, heap, freed, badFree, tracker, quarantine, outstanding,
                   saturated, pushed, lockVars>>

\* mod.rs: sanitized_realloc(ptr, layout, new_size) for a block o the program
\* holds: sanitized_alloc(new_layout) up to tracker::insert, and the null
\* return.
TReallocCall(t, o, new_size) ==
    /\ ~Aborted /\ th[t].pc = "idle"
    /\ \E base \in MallocResults :
          IF base = NULL
          THEN /\ last' = [Idle EXCEPT !.op = "realloc", !.ptr = o.addr,
                                       !.size = new_size]
               /\ UNCHANGED <<mem, heap, th>>
          ELSE /\ heap' = platform_malloc(St, base).heap
               /\ mem' = fill_canaries(mem, base, new_size)
               /\ Only(t, [ThIdle EXCEPT !.pc = "ra_lock", !.op = "realloc",
                                         !.ptr = base + REDZONE_SIZE, !.size = new_size,
                                         !.base = base, !.old = o.addr,
                                         !.old_size = o.size])
               /\ UNCHANGED last
    /\ UNCHANGED <<freed, badFree, tracker, quarantine, outstanding, saturated, pushed,
                   lockVars>>

\* tracker.rs: insert, TRACKER.lock(), inside sanitized_realloc
TReallocLock(t) ==
    /\ ~Aborted /\ th[t].pc = "ra_lock"
    /\ Acquire(t, "TRACKER")
    /\ Only(t, [th[t] EXCEPT !.pc = "ra_insert"])
    /\ UNCHANGED pipeVars

\* tracker.rs: insert under the guard, the guard dropped; sanitized_alloc
\* returns new_ptr to sanitized_realloc.
TReallocInsert(t) ==
    /\ ~Aborted /\ th[t].pc = "ra_insert"
    /\ tracker' = TrackerInsert(tracker, th[t].ptr, th[t].size, "Rust")
    /\ Release(t, "TRACKER")
    /\ outstanding' = outstanding \cup {[addr |-> th[t].ptr, size |-> th[t].size,
                                         kind |-> "Rust"]}
    /\ saturated' = (saturated \/ Cardinality(outstanding') > CAPACITY)
    /\ Only(t, [th[t] EXCEPT !.pc = "ra_copy"])
    /\ UNCHANGED <<mem, heap, freed, badFree, quarantine, pushed, last>>

\* mod.rs: sanitized_realloc, copy_nonoverlapping and the call of
\* sanitized_dealloc(ptr, layout), whose steps are those of a free of the old
\* block; sanitized_realloc returns new_ptr when it returns.
TReallocCopy(t) ==
    /\ ~Aborted /\ th[t].pc = "ra_copy"
    /\ LET copy_size == IF th[t].old_size < th[t].size THEN th[t].old_size
                        ELSE th[t].size
       IN mem' = copy_nonoverlapping(mem, th[t].old, th[t].ptr, copy_size)
    /\ Only(t, [ThIdle EXCEPT !.pc = "d_lock", !.op = "dealloc", !.ptr = th[t].old,
                              !.live = TrackerLookup(tracker, th[t].old) # None])
    /\ UNCHANGED <<heap, freed, badFree, tracker, quarantine, outstanding, saturated,
                   pushed, last, lockVars>>

\* tracker.rs: report_leaks, let guard = TRACKER.lock()
TLeaksLock(t) ==
    /\ ~Aborted /\ th[t].pc = "idle"
    /\ Acquire(t, "TRACKER")
    /\ Only(t, [ThIdle EXCEPT !.pc = "r_walk", !.op = "report_leaks"])
    /\ UNCHANGED pipeVars

\* Mutant: report_leaks returns with the tracker guard never dropped.
TLeaksWalkKeepsGuard(t) ==
    /\ ~Aborted /\ th[t].pc = "r_walk"
    /\ last' = [Idle EXCEPT !.op = "report_leaks", !.out = LeakReport(tracker)]
    /\ Only(t, ThIdle)
    /\ UNCHANGED <<mem, heap, freed, badFree, tracker, quarantine, outstanding,
                   saturated, pushed, lockVars>>

\* tracker.rs: report_leaks under the guard, which is dropped at the return.
TLeaksWalk(t) ==
    /\ ~Aborted /\ th[t].pc = "r_walk"
    /\ last' = [Idle EXCEPT !.op = "report_leaks", !.out = LeakReport(tracker)]
    /\ Release(t, "TRACKER")
    /\ Only(t, ThIdle)
    /\ UNCHANGED <<mem, heap, freed, badFree, tracker, quarantine, outstanding,
                   saturated, pushed>>

\* The blocks some thread is allocating or freeing right now.
InAlloc == {t \in Workers : th[t].op = "alloc"}
BeingFreed == {th[t].ptr : t \in {u \in Workers : th[u].op = "dealloc"}}

\* The caller contract of the concurrent claims: at most CAPACITY blocks
\* live, counting the ones being allocated.
RoomForOne == Cardinality(outstanding) + Cardinality(InAlloc) < CAPACITY
\* One more allocation of a bounded run.
ThreadBudget ==
    /\ allocs + writes < MaxSteps
    /\ allocs' = (IF heap' # heap THEN allocs + 1 ELSE allocs)
    /\ UNCHANGED <<writes, fd, ep>>
ThreadStep == UNCHANGED <<allocs, writes, fd, ep>>

\* Threads allocating and freeing within the caller contract: a block is
\* freed once, by one thread, after its allocation returned.
NextThreads ==
    \/ \E t \in Workers : TAllocCall(t, MaxSize) /\ RoomForOne /\ ThreadBudget
    \/ \E t \in Workers : TAllocLock(t) /\ ThreadStep
    \/ \E t \in Workers : TAllocInsert(t) /\ ThreadStep
    \/ \E t \in Workers, o \in outstanding :
          TFreeCall(t, o.addr) /\ o.addr \notin BeingFreed /\ ThreadStep
    \/ \E t \in Workers : TFreeLock(t) /\ ThreadStep
    \/ \E t \in Workers : TFreeRemove(t) /\ ThreadStep
    \/ \E t \in Workers : TFreeCheck(t) /\ ThreadStep
    \/ \E t \in Workers : TFreePushLock(t) /\ ThreadStep
    \/ \E t \in Workers : TFreePush(t) /\ ThreadStep
    \/ \E t \in Workers : TFreeEvicted(t) /\ ThreadStep
    \/ \E t \in Workers : TLeaksLock(t) /\ ThreadStep
    \/ \E t \in Workers : TLeaksWalk(t) /\ ThreadStep

SpecThreads == Init /\ [][NextThreads]_vars

\* Threads allocating and freeing, where a thread may free a block another
\* thread is freeing or has freed.
NextRace ==
    \/ \E t \in Workers : TAllocCall(t, MaxSize) /\ RoomForOne /\ ThreadBudget
    \/ \E t \in Workers : TAllocLock(t) /\ ThreadStep
    \/ \E t \in Workers : TAllocInsert(t) /\ ThreadStep
    \/ \E t \in Workers, ptr \in UserAddrs : TFreeCall(t, ptr) /\ ThreadStep
    \/ \E t \in Workers : TFreeLock(t) /\ ThreadStep
    \/ \E t \in Workers : TFreeRemove(t) /\ ThreadStep
    \/ \E t \in Workers : TFreeCheck(t) /\ ThreadStep
    \/ \E t \in Workers : TFreePushLock(t) /\ ThreadStep
    \/ \E t \in Workers : TFreePush(t) /\ ThreadStep
    \/ \E t \in Workers : TFreeEvicted(t) /\ ThreadStep
    \/ \E t \in Workers : TMissLock(t) /\ ThreadStep
    \/ \E t \in Workers : TMissContains(t) /\ ThreadStep
    \/ \E t \in Workers : TMissReport(t) /\ ThreadStep

SpecRace == Init /\ [][NextRace]_vars

\* Every pipeline operation, by threads that may free any pointer.
NextPipe ==
    \/ \E t \in Workers : TAllocCall(t, MaxSize) /\ RoomForOne /\ ThreadBudget
    \/ \E t \in Workers : TAllocLock(t) /\ ThreadStep
    \/ \E t \in Workers : TAllocInsert(t) /\ ThreadStep
    \/ \E t \in Workers, o \in outstanding :
          TReallocCall(t, o, 1) /\ RoomForOne /\ ThreadBudget
    \/ \E t \in Workers : TReallocLock(t) /\ ThreadStep
    \/ \E t \in Workers : TReallocInsert(t) /\ ThreadStep
    \/ \E t \in Workers : TReallocCopy(t) /\ ThreadStep
    \/ \E t \in Workers, ptr \in UserAddrs : TFreeCall(t, ptr) /\ ThreadStep
    \/ \E t \in Workers : TFreeLock(t) /\ ThreadStep
    \/ \E t \in Workers : TFreeRemove(t) /\ ThreadStep
    \/ \E t \in Workers : TFreeCheck(t) /\ ThreadStep
    \/ \E t \in Workers : TFreePushLock(t) /\ ThreadStep
    \/ \E t \in Workers : TFreePush(t) /\ ThreadStep
    \/ \E t \in Workers : TFreeEvicted(t) /\ ThreadStep
    \/ \E t \in Workers : TMissLock(t) /\ ThreadStep
    \/ \E t \in Workers : TMissContains(t) /\ ThreadStep
    \/ \E t \in Workers : TMissReport(t) /\ ThreadStep
    \/ \E t \in Workers : TLeaksLock(t) /\ ThreadStep
    \/ \E t \in Workers : TLeaksWalk(t) /\ ThreadStep

SpecPipe == Init /\ [][NextPipe]_vars

\* The steps of thread t inside a call it has entered: they are taken by the
\* thread itself, so a scheduler that is fair to t takes them when they stay
\* possible.  (Whether and when a call is entered is the program's choice.)
Continue(t) ==
    \/ TAllocLock(t) /\ ThreadStep
    \/ TAllocInsert(t) /\ ThreadStep
    \/ TReallocLock(t) /\ ThreadStep
    \/ TReallocInsert(t) /\ ThreadStep
    \/ TReallocCopy(t) /\ ThreadStep
    \/ TFreeLock(t) /\ ThreadStep
    \/ TFreeRemove(t) /\ ThreadStep
    \/ TFreeCheck(t) /\ ThreadStep
    \/ TFreePushLock(t) /\ ThreadStep
    \/ TFreePush(t) /\ ThreadStep
    \/ TFreeEvicted(t) /\ ThreadStep
    \/ TMissLock(t) /\ ThreadStep
    \/ TMissContains(t) /\ ThreadStep
    \/ TMissReport(t) /\ ThreadStep
    \/ TLeaksWalk(t) /\ ThreadStep

\* One more allocation of a bounded run of SpecLive.
LiveBudget ==
    /\ allocs < MaxAllocs
    /\ allocs' = (IF heap' # heap THEN allocs + 1 ELSE allocs)
    /\ UNCHANGED <<writes, fd, ep>>

\* The pointers the program frees in SpecLive: the blocks it holds, and the
\* blocks held in quarantine (a double free).
Freeable ==
    {o.addr : o \in outstanding}
        \cup {quarantine.ring[i].user_addr : i \in 0 .. quarantine.len - 1}

\* Every pipeline operation, by threads that may free a block twice or while
\* another thread frees it, each thread scheduled weakly fairly inside its
\* calls.
NextLive ==
    \/ \E t \in Workers : TAllocCall(t, MaxSize) /\ RoomForOne /\ LiveBudget
    \/ \E t \in Workers, o \in outstanding :
          TReallocCall(t, o, MaxSize) /\ RoomForOne /\ LiveBudget
    \/ \E t \in Workers, ptr \in Freeable : TFreeCall(t, ptr) /\ ThreadStep
    \/ \E t \in Workers : TLeaksLock(t) /\ ThreadStep
    \/ \E t \in Workers : Continue(t)

SpecLive == Init /\ [][NextLive]_vars /\ \A t \in Workers : WF_vars(Continue(t))

\* The pipeline as the repository ships it: every allocation is Rust, and
\* the user program keeps to its blocks.
Next ==
    \/ \E size \in Sizes : SanitizedAlloc(size) /\ AllocBudget
    \/ \E ptr \in FreePtrs : Dealloc(ptr, "Rust") /\ NoStep
    \/ \E o \in outstanding, new_size \in 1 .. MaxSize :
          SanitizedRealloc(o, new_size) /\ AllocBudget
    \/ ReportLeaks /\ NoStep

Spec == Init /\ [][Next]_vars

\* The pipeline with the user program storing into its blocks and redzones.
NextWrite ==
    \/ \E size \in Sizes : SanitizedAlloc(size) /\ AllocStep
    \/ \E ptr \in FreePtrs : Dealloc(ptr, "Rust") /\ NoStep
    \/ \E o \in outstanding, new_size \in 1 .. MaxSize :
          SanitizedRealloc(o, new_size) /\ AllocStep
    \/ \E o \in outstanding, off \in 0 .. Stride - 1, v \in UserBytes :
          UserWrite(o, off, v) /\ WriteStep

SpecWrite == Init /\ [][NextWrite]_vars

\* Blocks of every kind, freed as any kind, with the user program storing
\* into its blocks and redzones.
NextMix ==
    \/ SanitizedAlloc(MaxSize) /\ AllocStep
    \/ \E kind \in Kinds \ {"Rust"} : OperatorNew(MaxSize, kind) /\ AllocStep
    \/ \E ptr \in FreePtrs, kind \in Kinds : Dealloc(ptr, kind) /\ NoStep
    \/ \E o \in outstanding, off \in 0 .. Stride - 1, v \in UserBytes :
          UserWrite(o, off, v) /\ WriteStep

SpecMix == Init /\ [][NextMix]_vars

\* Threads taking and releasing the two spin locks in any order.
NextLock ==
    \/ \E t \in Threads, l \in Locks : LockEnter(t, l) /\ UNCHANGED <<pipeVars, fd, ep, th>>
    \/ \E t \in Threads : LockCas(t) /\ UNCHANGED <<pipeVars, fd, ep, th>>
    \/ \E t \in Threads : LockSpin(t) /\ UNCHANGED <<pipeVars, fd, ep, th>>
    \/ \E t \in Threads, l \in Locks : GuardDrop(t, l) /\ UNCHANGED <<pipeVars, fd, ep, th>>

SpecLock == Init /\ [][NextLock]_vars

\* format_dec on every value, into a zeroed buffer and into one full of '0'.
NextFormat ==
    \E value \in Values, fill \in {0, Digit0} :
        FormatDec(value, fill) /\ UNCHANGED <<pipeVars, lockVars, ep, th>>

SpecFormat == Init /\ [][NextFormat]_vars

\* An Epoch shared by threads that bump and read it in any order.
NextEpoch ==
    \/ \E t \in Threads : EpochBump(t) /\ UNCHANGED <<pipeVars, lockVars, fd, th>>
    \/ \E t \in Threads : EpochGet(t) /\ UNCHANGED <<pipeVars, lockVars, fd, th>>

SpecEpoch == Init /\ [][NextEpoch]_vars

\* Long runs of same-size allocations and frees: the quarantine fills and
\* wraps, the platform frees evicted blocks and hands them out again.
NextLong ==
    \/ SanitizedAlloc(MaxSize) /\ NoStep
    \/ \E ptr \in FreePtrs : Dealloc(ptr, "Rust") /\ NoStep

SpecLong == Init /\ [][NextLong]_vars

\* The quarantine ring on its own, under any sequence of pushes of blocks
\* (user_addr = base_addr + REDZONE_SIZE) and any query.
NextQ ==
    \/ \E u \in UserAddrs : QPush(u, u - REDZONE_SIZE, MaxSize) /\ NoStep
    \/ \E a \in FreePtrs : QContains(a) /\ NoStep

SpecQ == Init /\ [][NextQ]_vars

\* The tracker table on its own: inserts of addresses that are not live (at
\* most CAPACITY live at once), removes and lookups of any address.
TrkAddrs == UserAddrs \cup {Wild}

NextTracker ==
    \/ \E a \in TrkAddrs, size \in Sizes, kind \in Kinds :
          TrkInsert(a, size, kind) /\ NoStep
    \/ \E a \in TrkAddrs : TrkRemove(a) /\ NoStep
    \/ \E a \in TrkAddrs : TrkLookup(a) /\ NoStep

SpecTracker == Init /\ [][NextTracker]_vars

\* ------------------------------------------------------------------ claims
\* The addresses of the latest min(n, QCAPACITY) pushes.
Recent ==
    {pushed[i].user_addr : i \in {j \in 1 .. Len(pushed) : j > Len(pushed) - QCAPACITY}}

OccupiedSlots == {i \in 0 .. CAPACITY - 1 : tracker.entries[i].state = "Occupied"}
IsTracked(a) == \E i \in OccupiedSlots : tracker.entries[i].addr = a

\* The last call ran dealloc_inner on last.ptr.
RanDealloc ==
    \/ last.op = "dealloc"
    \/ last.op = "realloc" /\ last.ret # NULL

\* C1: as long as never more than CAPACITY allocations were live at once and
\* no fatal report was made, after every completed call the tracker's count
\* is the number of outstanding allocations; and count is always the number
\* of Occupied slots.
C1_CountIsOutstanding ==
    /\ tracker.count = Cardinality(OccupiedSlots)
    /\ (~saturated /\ ~Aborted) => tracker.count = Cardinality(outstanding)

\* After an accepted free, with other allocations still outstanding.
C1_Witness ==
    /\ ~saturated /\ ~Aborted
    /\ last.op = "dealloc" /\ last.tracked # None
    /\ Cardinality(outstanding) = CAPACITY - 1
    /\ \E i \in 0 .. CAPACITY - 1 : tracker.entries[i].state = "Tombstone"

\* C2: dealloc_inner on a non-null address that is not Occupied in the
\* tracker always ends in a fatal report: double_free if the address is held
\* in quarantine (one of the latest QCAPACITY frees), invalid_free otherwise;
\* an address never returned by an allocation is an invalid free.
C2_MissIsFatal ==
    (RanDealloc /\ last.ptr # NULL /\ last.tracked = None) =>
        /\ ~IsTracked(last.ptr)
        /\ last.report = (IF last.ptr \in Recent THEN "double_free" ELSE "invalid_free")
        /\ (last.ptr = Wild => last.report = "invalid_free")

\* A second free of the block freed last, while it is the newest entry in
\* quarantine.
C2_Witness ==
    /\ last.op = "dealloc" /\ last.report = "double_free"
    /\ pushed # <<>> /\ pushed[Len(pushed)].user_addr = last.ptr

\* C7: right after a successful sanitized_alloc of size S (S = 0 included,
\* where the raw block asked of malloc is two redzones long) the redzone
\* before the returned pointer and the redzone after its S bytes hold
\* CANARY_BYTE, and the pointer is the raw base plus REDZONE_SIZE.
C7_CanariesAfterAlloc ==
    (last.op = "alloc" /\ last.ret # NULL) =>
        /\ last.ret - REDZONE_SIZE \in Bases \cap heap
        /\ last.total = REDZONE_SIZE + last.size + REDZONE_SIZE
        /\ \A i \in 1 .. REDZONE_SIZE : mem[last.ret - i] = CANARY_BYTE
        /\ \A i \in 0 .. REDZONE_SIZE - 1 : mem[last.ret + last.size + i] = CANARY_BYTE

\* A successful allocation of size 0, and one of the largest size.
C7_Witness ==
    /\ last.op = "alloc" /\ last.ret # NULL
    /\ last.size = 0
    /\ last.total = REDZONE_SIZE + REDZONE_SIZE
    /\ \E o \in outstanding : o.size = MaxSize

\* The leak lines of the last report_leaks.
LeakLines == {i \in 1 .. Len(last.out) : last.out[i].line = "leak"}
LeakLine(a, sz, k) == [line |-> "leak", addr |-> a, size |-> sz, kind |-> k]

\* A banner, then leak lines only, then a trailer counting the leak lines.
LeakShape ==
    /\ Len(last.out) >= 2
    /\ last.out[1] = [line |-> "banner"]
    /\ LeakLines = 2 .. Len(last.out) - 1
    /\ last.out[Len(last.out)] = [line |-> "total", n |-> Len(last.out) - 2]

\* Exactly one leak line for each outstanding allocation, and no other.
LinesAreOutstanding ==
    /\ \A o \in outstanding :
          Cardinality({i \in LeakLines : last.out[i] = LeakLine(o.addr, o.size, o.kind)}) = 1
    /\ \A i \in LeakLines :
          \E o \in outstanding : last.out[i] = LeakLine(o.addr, o.size, o.kind)

\* Exactly one leak line for each Occupied slot, and no other.
LinesAreOccupied ==
    /\ \A s \in OccupiedSlots :
          Cardinality({i \in LeakLines :
              last.out[i] = LeakLine(tracker.entries[s].addr, tracker.entries[s].size,
                                     tracker.entries[s].kind)}) = 1
    /\ \A i \in LeakLines :
          \E s \in OccupiedSlots :
              last.out[i] = LeakLine(tracker.entries[s].addr, tracker.entries[s].size,
                                     tracker.entries[s].kind)

\* C10 as claimed: report_leaks emits nothing when no allocation is
\* outstanding, and otherwise the banner, exactly one leak line for each
\* outstanding allocation and a trailer with their number.
C10_Original ==
    (last.op = "report_leaks") =>
        IF outstanding = {} THEN last.out = <<>>
        ELSE LeakShape /\ LinesAreOutstanding

\* C10, the part of the amended claim about what is written: report_leaks
\* emits nothing when count is 0, and otherwise the banner, exactly one leak
\* line for each Occupied slot and a trailer with their number; these are
\* the outstanding allocations as long as never more than CAPACITY were live
\* at once.
C10_Lines ==
    (last.op = "report_leaks") =>
        /\ IF tracker.count = 0 THEN last.out = <<>>
           ELSE LeakShape /\ LinesAreOccupied
        /\ ~saturated => (IF outstanding = {} THEN last.out = <<>>
                          ELSE LeakShape /\ LinesAreOutstanding)

\* C10 (amended): what report_leaks writes is as in C10_Lines, and it leaves
\* the tracker unchanged.
C10_LeakReport ==
    /\ []C10_Lines
    /\ [][last'.op = "report_leaks" => tracker' = tracker]_vars

\* A report of two leaks.
C10_Witness ==
    /\ last.op = "report_leaks"
    /\ ~saturated
    /\ Cardinality(outstanding) = 2
    /\ Len(last.out) = 4

\* Some byte of the redzone before p, or after the size bytes at p, is not
\* CANARY_BYTE in memory m.
PrefixBad(m, p) == \E i \in 1 .. REDZONE_SIZE : m[p - i] # CANARY_BYTE
SuffixBad(m, p, size) == \E i \in 0 .. REDZONE_SIZE - 1 : m[p + size + i] # CANARY_BYTE

\* What the canary check of the last free must have concluded.
OverflowVerdict ==
    LET size == last.tracked[1][1]
        pre == PrefixBad(mem, last.ptr)
        suf == SuffixBad(mem, last.ptr, size)
    IN /\ (last.report = "overflow_detected") <=> (pre \/ suf)
       /\ last.report = "overflow_detected" => (last.prefix = pre /\ last.suffix = suf)

\* C3 as claimed: whenever a tracked block is freed, the free ends in
\* overflow_detected iff some redzone byte differs from CANARY_BYTE.
C3_Original ==
    (RanDealloc /\ last.tracked # None) => OverflowVerdict

\* C3 (amended): when a tracked block is freed as the kind it was allocated
\* with, the free ends in overflow_detected iff some prefix or suffix redzone
\* byte differs from CANARY_BYTE, with prefix_corrupt and suffix_corrupt
\* saying which redzone does (both may); with both redzones intact no
\* overflow is reported. Freed as another kind, the free ends in
\* mismatched_dealloc whatever the redzones hold.
\* (A free never writes a redzone, so the bytes read here are those it saw.)
C3_OverflowReported ==
    (RanDealloc /\ last.tracked # None) =>
        IF last.tracked[1][2] = last.kind
        THEN OverflowVerdict
        ELSE last.report = "mismatched_dealloc"

\* A free that reports both redzones corrupted.
C3_Witness ==
    /\ last.op = "dealloc" /\ last.report = "overflow_detected"
    /\ last.prefix /\ last.suffix

\* a is Occupied in tracker t with this size.
TrackedWith(t, a, size) ==
    \E i \in 0 .. CAPACITY - 1 :
        /\ t.entries[i].state = "Occupied"
        /\ t.entries[i].addr = a
        /\ t.entries[i].size = size

TrackedIn(t, a) == \E size \in Sizes : TrackedWith(t, a, size)

\* The state after the step.
StNext == [mem |-> mem', heap |-> heap', freed |-> freed', badFree |-> badFree',
           tracker |-> tracker', quarantine |-> quarantine',
           outstanding |-> outstanding', saturated |-> saturated', pushed |-> pushed']

\* The step is a sanitized_realloc of the live, uncorrupted block o that
\* returned a pointer.
ReallocOf(o) ==
    /\ last'.op = "realloc" /\ last'.ptr = o.addr /\ last'.ret # NULL
    /\ TrackedIn(tracker, o.addr)
    /\ ~PrefixBad(mem, o.addr) /\ ~SuffixBad(mem, o.addr, o.size)

\* What C9 says of such a step: no report; q # p; the first min(old, new)
\* bytes carried over; q Live with the new size and intact canaries; p no
\* longer tracked and in quarantine; a free of q would be accepted.
ReallocDone(o) ==
    LET q == last'.ret
        new == last'.size
        n == IF o.size < new THEN o.size ELSE new
    IN /\ last'.report = "none"
       /\ q # o.addr
       /\ \A i \in 0 .. n - 1 : mem'[q + i] = mem[o.addr + i]
       /\ TrackedWith(tracker', q, new)
       /\ ~PrefixBad(mem', q) /\ ~SuffixBad(mem', q, new)
       /\ ~TrackedIn(tracker', o.addr)
       /\ QuarantineContains(quarantine', o.addr)
       /\ dealloc_inner(StNext, q, "Rust").r.report = "none"

\* C9 as claimed: every successful realloc of a live, uncorrupted block.
C9_Original ==
    [][\A o \in outstanding : ReallocOf(o) => ReallocDone(o)]_vars

\* C9 (amended): a successful sanitized_realloc of a live, uncorrupted
\* block, called while fewer than CAPACITY blocks are tracked, returns a
\* fresh q # p holding the first min(old, new) bytes of p; q is then Live
\* with size new_size and intact canaries, p is untracked and in quarantine,
\* and a later free of q is accepted.
C9_ReallocMoves ==
    [][\A o \in outstanding :
          (ReallocOf(o) /\ tracker.count < CAPACITY) => ReallocDone(o)]_vars

\* A realloc to a larger size that carried a stored user byte over.
C9_Witness ==
    /\ last.op = "realloc" /\ last.ret # NULL /\ last.report = "none"
    /\ last.tracked # None /\ last.tracked[1][1] < last.size
    /\ \E v \in UserBytes : mem[last.ret] = v
    /\ TrackedWith(tracker, last.ret, last.size)

\* C8: on a deallocate-hit the free ends in mismatched_dealloc iff the
\* tracked kind differs from the expected kind, for every pair of kinds; so
\* a free is accepted only when the two kinds are equal.
C8_KindCheck ==
    (RanDealloc /\ last.tracked # None) =>
        /\ (last.report = "mismatched_dealloc") <=> (last.tracked[1][2] # last.kind)
        /\ last.report = "none" => last.tracked[1][2] = last.kind

\* A block from operator new freed as if it came from operator new[].
C8_Witness ==
    /\ last.op = "dealloc" /\ last.report = "mismatched_dealloc"
    /\ last.tracked # None /\ last.tracked[1][2] = "ScalarNew"
    /\ last.kind = "ArrayNew"

\* C4: after any sequence of n pushes, contains(a) is true iff a is the
\* user_addr of one of the latest min(n, QCAPACITY) pushes, and that is what
\* a call of contains returns.
C4_ContainsRecent ==
    /\ \A a \in FreePtrs : QuarantineContains(quarantine, a) <=> (a \in Recent)
    /\ last.op = "contains" => (last.found <=> (last.ptr \in Recent))

\* The ring has wrapped: the address pushed QCAPACITY pushes before the
\* latest one is no longer contained, the latest QCAPACITY are.
C4_Witness ==
    /\ last.op = "contains" /\ ~last.found
    /\ Len(pushed) = QCAPACITY + 1
    /\ last.ptr = pushed[1].user_addr
    /\ \A i \in 2 .. Len(pushed) : QuarantineContains(quarantine, pushed[i].user_addr)

\* The k-th latest push, k = 1 for the latest.
Latest(k) == pushed[Len(pushed) + 1 - k]

\* C5: a push returns None while fewer than QCAPACITY entries are held, and
\* len grows by one; once QCAPACITY entries are held a push returns the
\* base_addr of the oldest held entry, the one pushed QCAPACITY pushes
\* earlier, and len stays QCAPACITY; the entries held are always the latest
\* min(n, QCAPACITY) pushes, newest at pos - 1, so only the oldest is lost.
C5_FifoEviction ==
    LET n == Len(pushed)
        held == IF n < QCAPACITY THEN n ELSE QCAPACITY
    IN /\ quarantine.len = held
       /\ \A k \in 1 .. held :
             LET e == quarantine.ring[(quarantine.pos + QCAPACITY - k) % QCAPACITY]
             IN e.user_addr = Latest(k).user_addr /\ e.base_addr = Latest(k).base_addr
       /\ last.op = "push" =>
             last.evicted = (IF n <= QCAPACITY THEN None ELSE Some(pushed[1].base_addr))

\* A push into a full ring that evicted the oldest entry, of another block
\* than the ones still held.
C5_Witness ==
    /\ last.op = "push"
    /\ Len(pushed) = QCAPACITY + 1
    /\ last.evicted = Some(pushed[1].base_addr)
    /\ \A i \in 2 .. Len(pushed) : pushed[i].base_addr # pushed[1].base_addr

\* The raw bases of the blocks held in quarantine, and of the blocks Live
\* in the tracker.
HeldBases == {quarantine.ring[i].base_addr : i \in 0 .. quarantine.len - 1}
LiveBases == {tracker.entries[i].addr - REDZONE_SIZE : i \in OccupiedSlots}

\* C6 as claimed, its last clause: over the whole run the platform receives
\* at most one free call for any one base.
C6_Original == \A b \in Bases : freed[b] <= 1

\* No block Live in the tracker or held in quarantine has been handed to the
\* platform free, and the platform free was never called on a base the
\* platform did not hold allocated (so never twice for one malloc).
C6_HeldNotFreed ==
    /\ ~badFree
    /\ HeldBases \subseteq heap
    /\ LiveBases \subseteq heap

\* A step calls the platform free on b iff it is a free whose quarantine
\* push evicted b, the base of the oldest entry held; it calls it once.
C6_FreeStep ==
    \A b \in Bases :
        (b \in heap /\ b \notin heap') <=>
            /\ last'.op \in {"dealloc", "realloc"}
            /\ last'.evicted = Some(b)
            /\ Len(pushed) >= QCAPACITY
            /\ pushed[Len(pushed) + 1 - QCAPACITY].base_addr = b
            /\ freed'[b] = (IF freed[b] < 2 THEN freed[b] + 1 ELSE freed[b])
            /\ \A c \in Bases \ {b} : freed'[c] = freed[c]

\* C6 (amended): the platform free is called on a raw base only at the
\* moment that block's entry is evicted from quarantine, never while the
\* block is Live in the tracker or still held in quarantine, and exactly
\* once for each time the platform handed that base out; a base the
\* platform hands out again is freed again at its next eviction.
C6_FreeAtEviction ==
    /\ []C6_HeldNotFreed
    /\ [][C6_FreeStep]_vars

\* A base freed at its eviction for the second time in the run, after the
\* platform had handed it out again.
C6_Witness ==
    /\ last.op = "dealloc" /\ last.evicted # None
    /\ freed[last.evicted[1]] = 2
    /\ last.evicted[1] \notin heap
    /\ ~badFree

\* Every slot of tracker t is Occupied.
TrackerFull(t) == \A i \in 0 .. CAPACITY - 1 : t.entries[i].state = "Occupied"

\* With CAPACITY blocks live, all of them recorded, a free of any one of
\* them finds its slot and is accepted.
FullFreeStep ==
    (/\ ~saturated /\ Cardinality(outstanding) = CAPACITY
     /\ last'.op = "dealloc"
     /\ \E o \in outstanding : o.addr = last'.ptr)
    => (/\ last'.report = "none"
        /\ \E o \in outstanding : last'.tracked = Some(<<o.size, o.kind>>) /\ o.addr = last'.ptr
        /\ tracker'.count = CAPACITY - 1)

\* An allocation made while CAPACITY blocks are live and recorded returns a
\* pointer into a raw block with its canaries in place, and leaves the
\* tracker as it was.
FullAllocStep ==
    (/\ TrackerFull(tracker) /\ Cardinality(outstanding) = CAPACITY
     /\ last'.op = "alloc" /\ last'.ret # NULL)
    => (/\ tracker' = tracker
        /\ last'.ret - REDZONE_SIZE \in heap' \ heap
        /\ ~PrefixBad(mem', last'.ret) /\ ~SuffixBad(mem', last'.ret, last'.size)
        /\ ~TrackedIn(tracker', last'.ret))

\* A block whose record was dropped: a free of it now would be an invalid
\* free, and when the last call freed it, it was.
DroppedIsInvalidFree ==
    /\ \A o \in outstanding :
          ~IsTracked(o.addr) => dealloc_inner(St, o.addr, "Rust").r.report = "invalid_free"
    /\ (last.op = "dealloc" /\ last.tracked = None
        /\ \E o \in outstanding : o.addr = last.ptr) => last.report = "invalid_free"

\* C11: with exactly CAPACITY blocks live (all recorded), a free of any one
\* of them is accepted; a further allocation made while CAPACITY blocks are
\* live returns a usable pointer but records nothing (count and every slot
\* unchanged), and a later free of that pointer is an invalid_free.
C11_SaturationBoundary ==
    /\ []DroppedIsInvalidFree
    /\ [][FullFreeStep /\ FullAllocStep]_vars

\* The free of a block that was allocated while the tracker was full.
C11_Witness ==
    /\ last.op = "dealloc" /\ last.report = "invalid_free"
    /\ \E o \in outstanding : o.addr = last.ptr
    /\ TrackerFull(tracker) /\ tracker.count = CAPACITY

\* The threads holding a guard of lock l.
Holders(l) == {t \in Threads : l \in guards[t]}

\* At most one guard per lock, and the flag is set exactly while there is one.
OneGuard ==
    \A l \in Locks :
        /\ Cardinality(Holders(l)) <= 1
        /\ locked[l] <=> Holders(l) # {}

\* Dropping the guard clears the flag, after which an exchange by a thread
\* inside lock() can succeed.
DropReleases ==
    \A l \in Locks :
        (Holders(l) # {} /\ Holders(l)' = {}) =>
            /\ ~locked'[l]
            /\ \A t \in Threads :
                  (lk'[t].pc = "cas" /\ lk'[t].lock = l) => (ENABLED LockCas(t))'

\* A guard comes into being only by an exchange on an unlocked flag.
TakenWhenFree ==
    \A l \in Locks, t \in Threads :
        (l \notin guards[t] /\ l \in guards'[t]) =>
            (~locked[l] /\ lk[t] = [pc |-> "cas", lock |-> l])

\* C12: under any interleaving of threads calling lock(), at most one guard
\* of a lock exists at a time, the locked flag is true exactly while a guard
\* exists, and dropping the guard releases the lock so that a later lock()
\* can succeed.
C12_MutualExclusion ==
    /\ []OneGuard
    /\ [][DropReleases /\ TakenWhenFree]_vars

\* A thread holds the TRACKER lock while the two others are inside lock()
\* on it, one spinning and one about to retry the exchange.
C12_Witness ==
    /\ Cardinality(Holders("TRACKER")) = 1
    /\ \E t \in Threads : lk[t] = [pc |-> "spin", lock |-> "TRACKER"]
    /\ \E t \in Threads : lk[t] = [pc |-> "cas", lock |-> "TRACKER"]

\* The number a sequence of ASCII digits spells.
RECURSIVE ParseDec(_)
ParseDec(digits) ==
    IF digits = <<>> THEN 0
    ELSE 10 * ParseDec(SubSeq(digits, 1, Len(digits) - 1))
         + (digits[Len(digits)] - Digit0)

\* C13: the slice format_dec returns for v spells v in decimal: only the
\* digits '0'..'9', at least one, no leading '0' unless v = 0 where it is
\* the single byte '0', and it is the tail of the buffer.
C13_FormatDecRoundTrip ==
    (fd # NoFormat) =>
        /\ fd.slice # <<>>
        /\ \A k \in 1 .. Len(fd.slice) : fd.slice[k] \in Digit0 .. Digit0 + 9
        /\ ParseDec(fd.slice) = fd.value
        /\ fd.slice[1] = Digit0 => fd.value = 0
        /\ fd.value = 0 => fd.slice = <<Digit0>>
        /\ fd.start + Len(fd.slice) = DecBufLen
        /\ \A k \in 1 .. Len(fd.slice) : fd.slice[k] = fd.buf[fd.start + k - 1]

\* The largest value, which fills the whole buffer, formatted into a buffer
\* that held '0' bytes.
C13_Witness ==
    /\ fd.value = 2 ^ ValueBits - 1
    /\ fd.start = 0
    /\ Len(fd.slice) = DecBufLen

\* The places of a free that missed the tracker, and of a call that ended
\* in a fatal report.
MissPcs == {"m_lock", "m_contains", "m_report"}

\* C14: under every interleaving of sanitized_alloc and sanitized_dealloc
\* calls of several threads that keep the caller contract (a returned
\* address is freed at most once, by one thread; at most CAPACITY blocks
\* live), no fatal report is reached and every free is accepted: it finds
\* its block in the tracker and passes the kind and canary checks.
C14_NoFatalInContract ==
    /\ ~Aborted
    /\ \A t \in Workers : th[t].pc \notin MissPcs \cup {"aborted"}
    /\ (last.op = "dealloc" /\ last.ptr # NULL) => last.tracked # None
    /\ ~saturated

\* Two frees in flight at once, one holding the tracker lock and one the
\* quarantine lock, with a block already held in quarantine.
C14_Witness ==
    /\ \E t \in Workers : th[t].pc = "d_remove" /\ "TRACKER" \in guards[t]
    /\ \E t \in Workers : th[t].pc = "q_push" /\ "QUARANTINE" \in guards[t]
    /\ quarantine.len >= 1

\* C15 as claimed: a free of an address that was live at the call and that
\* the tracker no longer holds (another thread's free removed it) ends in
\* the double-free report.
C15_Original ==
    \A t \in Workers :
        (th[t].op = "dealloc" /\ th[t].live /\ th[t].pc = "aborted"
         /\ th[t].tracked = None) => last.report = "double_free"

\* C16: with inserts of distinct live addresses and at most CAPACITY of them
\* live, the tracker is a map: lookup(a) and remove(a) return Some(size, kind)
\* of the latest insert of a exactly when a was inserted and not removed
\* since, whatever the hash collisions and tombstones; no address sits in two
\* Occupied slots; count is the number of live addresses; lookup changes
\* nothing.
LiveEntry(a) ==
    IF \E o \in outstanding : o.addr = a
    THEN LET o == CHOOSE x \in outstanding : x.addr = a
         IN Some(<<o.size, o.kind>>)
    ELSE None

TrackerIsMap ==
    /\ \A a \in TrkAddrs : TrackerLookup(tracker, a) = LiveEntry(a)
    /\ \A i, j \in OccupiedSlots :
          tracker.entries[i].addr = tracker.entries[j].addr => i = j
    /\ tracker.count = Cardinality(outstanding)

TrackerOpStep ==
    /\ last'.op = "remove" =>
          /\ last'.tracked = LiveEntry(last'.ptr)
          /\ \A a \in TrkAddrs \ {last'.ptr} :
                TrackerLookup(tracker', a) = TrackerLookup(tracker, a)
    /\ last'.op = "lookup" =>
          /\ last'.tracked = LiveEntry(last'.ptr)
          /\ tracker' = tracker
    /\ last'.op = "insert" =>
          \A a \in TrkAddrs \ {last'.ptr} :
              TrackerLookup(tracker', a) = TrackerLookup(tracker, a)

C16_TrackerIsMap == []TrackerIsMap /\ [][TrackerOpStep]_vars

\* Two live addresses with the same hash, the second found past a tombstone
\* left in its probe chain, and the table holding CAPACITY entries.
C16_Witness ==
    /\ Cardinality(outstanding) = CAPACITY
    /\ \E i \in OccupiedSlots :
          /\ hash(tracker.entries[i].addr) % CAPACITY # i
          /\ last.op = "lookup" /\ last.ptr = tracker.entries[i].addr
          /\ last.tracked # None
    /\ \E a, b \in TrkAddrs : a # b /\ hash(a) = hash(b) /\ LiveEntry(a) # None
                              /\ tracker.entries[hash(a) % CAPACITY].addr = b

\* C17: on a deallocate-hit the kind check comes first and the canary check
\* second, and the block is poisoned and quarantined only when both pass: a
\* kind mismatch is reported as mismatched_dealloc even with a corrupted
\* redzone, and a free that ends in mismatched_dealloc or overflow_detected
\* leaves every byte of memory, the quarantine and the platform heap as they
\* were.
DeallocHitStep == last'.op = "dealloc" /\ last'.tracked # None

ChecksBeforeEffects ==
    DeallocHitStep =>
        LET p == last'.ptr
            size == last'.tracked[1][1]
            mismatch == last'.tracked[1][2] # last'.kind
            corrupt == PrefixBad(mem, p) \/ SuffixBad(mem, p, size)
            touched == \/ mem' # mem
                       \/ quarantine' # quarantine
                       \/ pushed' # pushed
                       \/ heap' # heap
                       \/ freed' # freed
        IN /\ mismatch => last'.report = "mismatched_dealloc"
           /\ (~mismatch /\ corrupt) => last'.report = "overflow_detected"
           /\ (~mismatch /\ ~corrupt) =>
                 /\ last'.report = "none"
                 /\ QuarantineContains(quarantine', p)
                 /\ \A i \in 0 .. size - 1 : mem'[p + i] = POISON_BYTE
           /\ last'.report # "none" => ~touched
           /\ touched => (~mismatch /\ ~corrupt)

C17_ChecksBeforeEffects == [][ChecksBeforeEffects]_vars

\* A block freed as another kind while its redzone is corrupted and its user
\* bytes hold what the program stored: the report is mismatched_dealloc.
C17_Witness ==
    /\ last.op = "dealloc" /\ last.report = "mismatched_dealloc"
    /\ last.tracked # None
    /\ PrefixBad(mem, last.ptr) \/ SuffixBad(mem, last.ptr, last.tracked[1][1])
    /\ \E i \in 0 .. last.tracked[1][1] - 1 : mem[last.ptr + i] \in UserBytes
    /\ ~QuarantineContains(quarantine, last.ptr)

\* C18: once a free of a block of tracked size S is accepted, its S user
\* bytes are all POISON_BYTE and both its redzones are all CANARY_BYTE, and
\* while the block is held in quarantine no later alloc, realloc or free
\* writes to any byte of it.
Held == {quarantine.ring[i] : i \in 0 .. quarantine.len - 1}

Poisoned(m, e) ==
    /\ \A i \in 0 .. e.user_size - 1 : m[e.user_addr + i] = POISON_BYTE
    /\ ~PrefixBad(m, e.user_addr)
    /\ ~SuffixBad(m, e.user_addr, e.user_size)

QuarantinedPoisoned == \A e \in Held : Poisoned(mem, e)

AcceptedFreeStep ==
    /\ last'.op \in {"dealloc", "realloc"}
    /\ last'.tracked # None
    /\ last'.report = "none"

QuarantineStep ==
    /\ AcceptedFreeStep =>
          LET e == [user_addr |-> last'.ptr, base_addr |-> last'.ptr - REDZONE_SIZE,
                    user_size |-> last'.tracked[1][1]]
          IN e \in {quarantine'.ring[i] : i \in 0 .. quarantine'.len - 1}
             /\ Poisoned(mem', e)
    /\ \A e \in Held :
          e \in {quarantine'.ring[i] : i \in 0 .. quarantine'.len - 1} =>
              \A a \in e.base_addr .. e.base_addr + total_size(e.user_size) - 1 :
                  mem'[a] = mem[a]

C18_PoisonedInQuarantine == []QuarantinedPoisoned /\ [][QuarantineStep]_vars

\* A block the program had stored into sits poisoned in quarantine while a
\* later allocation has been served and filled by the program.
C18_Witness ==
    /\ \E e \in Held : e.user_size = MaxSize /\ Poisoned(mem, e)
    /\ \E o \in outstanding :
          /\ o.size >= 1
          /\ mem[o.addr] \in UserBytes
          /\ \A e \in Held : e.user_addr # o.addr
    /\ writes >= 2

\* C19: when the platform malloc returns null, sanitized_alloc and
\* sanitized_realloc return null and change nothing: memory, the platform
\* heap, the tracker and the quarantine are as before, nothing is reported,
\* and for realloc the old block is still Live in the tracker with its size
\* and kind, its user bytes and canaries as they were, and not in quarantine
\* unless it already was.
NullReturnStep == last'.op \in {"alloc", "realloc"} /\ last'.ret = NULL

NullChangesNothing ==
    NullReturnStep =>
        /\ mem' = mem
        /\ heap' = heap
        /\ freed' = freed
        /\ tracker' = tracker
        /\ quarantine' = quarantine
        /\ pushed' = pushed
        /\ outstanding' = outstanding
        /\ last'.report = "none"
        /\ last'.op = "realloc" =>
              /\ TrackerLookup(tracker', last'.ptr) = TrackerLookup(tracker, last'.ptr)
              /\ QuarantineContains(quarantine', last'.ptr)
                    = QuarantineContains(quarantine, last'.ptr)

C19_NullChangesNothing == [][NullChangesNothing]_vars

\* A realloc fails for a live block the program has stored into, with another
\* block in quarantine: the block is still tracked, its bytes are the
\* program's and its redzones are intact.
C19_Witness ==
    /\ last.op = "realloc" /\ last.ret = NULL
    /\ TrackerLookup(tracker, last.ptr) # None
    /\ mem[last.ptr] \in UserBytes
    /\ ~PrefixBad(mem, last.ptr)
    /\ ~QuarantineContains(quarantine, last.ptr)
    /\ quarantine.len >= 1

\* C20: no thread holds the tracker lock and the quarantine lock together;
\* a thread has released the tracker lock when it requests the quarantine
\* lock; and a thread holds no lock when it calls the platform malloc or
\* free or a fatal reporter.
UnlockedPcs == {"idle", "a_lock", "ra_lock", "ra_copy", "d_lock", "d_check", "q_lock",
                "d_free", "m_lock", "m_report", "aborted"}

LockDiscipline ==
    \A t \in Workers :
        /\ Cardinality(guards[t]) <= 1
        /\ th[t].pc \in {"q_lock", "m_lock"} => "TRACKER" \notin guards[t]
        /\ th[t].pc \in UnlockedPcs => guards[t] = {}
        /\ th[t].pc \in {"a_insert", "ra_insert", "d_remove", "r_walk"}
              => guards[t] = {"TRACKER"}
        /\ th[t].pc \in {"q_push", "m_contains"} => guards[t] = {"QUARANTINE"}

\* The step called the platform malloc or free, or a fatal reporter.
PlatformOrReportStep ==
    \/ heap' # heap
    \/ freed' # freed
    \/ last' # last /\ last'.op \in {"alloc", "realloc"} /\ last'.ret = NULL
    \/ last' # last /\ last'.report # "none"

UnlockedCalls ==
    PlatformOrReportStep =>
        /\ \A t \in Workers : th'[t] # th[t] => (guards[t] = {} /\ guards'[t] = {})
        /\ guards' = guards
        /\ locked' = locked

C20_LockDiscipline == []LockDiscipline /\ [][UnlockedCalls]_vars

\* One thread is inside quarantine::push under the quarantine lock while the
\* other is inside the tracker insert of a realloc under the tracker lock.
C20_Witness ==
    \E t, u \in Workers :
        /\ th[t].pc = "q_push" /\ guards[t] = {"QUARANTINE"}
        /\ th[u].pc = "ra_insert" /\ guards[u] = {"TRACKER"}

\* C21: the epoch is an atomic monotonic counter: starting from 0, after n
\* bump calls by any threads in any order (n below 2^EpochBits, the width of
\* the counter) the bumps have returned exactly 0, 1, ..., n-1, each once, a
\* get returns n, and no get returns less than an earlier get did.
EpochCounts ==
    ep.n < 2 ^ EpochBits =>
        /\ ep.value = ep.n
        /\ Len(ep.rets) = ep.n
        /\ {ep.rets[i] : i \in 1 .. ep.n} = 0 .. ep.n - 1
        /\ \A i, j \in 1 .. ep.n : ep.rets[i] = ep.rets[j] => i = j

EpochGetStep ==
    (ep' # ep /\ ep'.op = "get" /\ ep.n < 2 ^ EpochBits) =>
        /\ ep'.ret = ep.n
        /\ ep'.ret >= ep.top
        /\ \A t \in Threads : ep.got[t] # None => ep'.ret >= ep.got[t][1]

C21_EpochMonotonic == []EpochCounts /\ [][EpochGetStep]_vars

\* The counter at its largest value, bumped by the calls before, the last
\* call a get that returned it, with another thread's get from earlier on.
C21_Witness ==
    /\ ep.n = 2 ^ EpochBits - 1
    /\ ep.op = "get" /\ ep.ret = ep.n
    /\ \E t, u \in Threads : /\ ep.got[t] = Some(ep.n)
                             /\ ep.got[u] # None /\ ep.got[u][1] < ep.n
                             /\ ep.got[u][1] > 0

\* C22: in every reachable state, under any interleaving of pipeline calls
\* (the platform malloc returning only blocks it does not hold allocated), no
\* address is both Occupied in the tracker and the user_addr of an entry held
\* in quarantine, and no two entries held in quarantine have the same
\* user_addr.
C22_TrackerQuarantineDisjoint ==
    /\ \A i \in OccupiedSlots :
          ~QuarantineContains(quarantine, tracker.entries[i].addr)
    /\ \A i, j \in 0 .. quarantine.len - 1 :
          quarantine.ring[i].user_addr = quarantine.ring[j].user_addr => i = j

\* A block that went through quarantine, was evicted and freed, is handed
\* out again and Occupied in the tracker while the quarantine is full.
C22_Witness ==
    /\ quarantine.len = QCAPACITY
    /\ Len(pushed) = QCAPACITY + 1
    /\ IsTracked(pushed[1].user_addr)
    /\ \E t \in Workers : th[t].pc \notin {"idle", "aborted"}

\* C23: the pipeline is deadlock-free and makes progress.  With every thread
\* scheduled weakly fairly (and the platform calls returning), whenever a
\* thread is inside sanitized_alloc, sanitized_dealloc, sanitized_realloc or
\* report_leaks, some call in progress eventually returns or aborts the
\* process; in no reachable state is every thread waiting for a lock; every
\* held lock has a holder whose next step waits for nothing; and each
\* tracker probe loop ends within CAPACITY iterations.
\* Some thread is inside a call of a process that has not aborted.
Busy == ~Aborted /\ \E t \in Workers : th[t].pc # "idle"

\* A call in progress returns or aborts the process.
Completes ==
    \E t \in Workers : th[t].pc \notin {"idle", "aborted"}
                       /\ th'[t].pc \in {"idle", "aborted"}

\* The lock thread t is waiting for, if any.
LockWanted(t) ==
    IF th[t].pc \in {"a_lock", "ra_lock", "d_lock"} THEN {"TRACKER"}
    ELSE IF th[t].pc \in {"q_lock", "m_lock"} THEN {"QUARANTINE"}
    ELSE {}

Spinning(t) == \E l \in LockWanted(t) : locked[l]

\* The iterations the probe loop of remove and lookup runs for addr.
RECURSIVE ProbeSteps(_, _, _, _)
ProbeSteps(t, idx, n, addr) ==
    IF n = 0 THEN 0
    ELSE IF t.entries[idx].state = "Occupied" /\ t.entries[idx].addr = addr
         THEN 1
         ELSE IF t.entries[idx].state = "Empty"
              THEN 1
              ELSE 1 + ProbeSteps(t, (idx + 1) % CAPACITY, n - 1, addr)

NoDeadlock ==
    /\ ~Aborted => \E t \in Workers : ~Spinning(t)
    /\ \A l \in Locks : locked[l] =>
          \E t \in Workers :
              /\ l \in guards[t]
              /\ th[t].pc \in {"a_insert", "ra_insert", "d_remove", "r_walk",
                               "q_push", "m_contains"}
    /\ \A a \in UserAddrs :
          ProbeSteps(tracker, hash(a) % CAPACITY, CAPACITY, a) <= CAPACITY

\* From a state with a call in progress there is a later Completes step:
\* either such steps never cease, or from some point on no call is in
\* progress (a call in progress ceases to be only by a Completes step).
C23_Progress ==
    /\ []NoDeadlock
    /\ ([]<><<Completes>>_vars) \/ (<>[]~Busy)

\* Both threads want the tracker lock, one of them spinning while the other
\* holds it, and a probe of the full table runs all CAPACITY iterations.
C23_Witness ==
    /\ \E t, u \in Workers :
          /\ th[t].pc = "d_lock" /\ Spinning(t)
          /\ th[u].pc = "d_remove" /\ guards[u] = {"TRACKER"}
    /\ \E a \in UserAddrs :
          ProbeSteps(tracker, hash(a) % CAPACITY, CAPACITY, a) = CAPACITY

====
